---- MODULE Spec2Model ----
(***************************************************************************)
(* Verification model of the realistic-persona plugin.                     *)
(*                                                                         *)
(*   Part 1  IEEE-754 binary64 arithmetic (Python float) on the values the *)
(*           memory engine computes: + - / * min max and comparisons.      *)
(*   Part 2  MemoryManager.calculate_memory_importance (pure function).    *)
(*   Part 3  MemoryManager: the weighted conversation store, the core      *)
(*           memory document, the decay sweep, trivial marking, queries.   *)
(*   Part 4  AutoPublish: the daily multi-publish scheduler.               *)
(*   Part 5  AutoRandomCronTask: a task run once at a random instant of    *)
(*           every cron period.                                            *)
(*   Part 6  The image-task polling loops, the personality evolution       *)
(*           systems, the proactive message scheduler, the profile         *)
(*           updater and the interaction handler's decay trigger.          *)
(***************************************************************************)
EXTENDS Integers, Sequences, FiniteSets, TLC

(***************************************************************************)
(* Part 1.  Python floats.                                                 *)
(*                                                                         *)
(* TLC integers are 32 bits wide, a double's significand is 53, so a       *)
(* magnitude is a natural number kept as a little-endian sequence of       *)
(* 15-bit limbs without leading zero limbs (<<>> is 0).  A float is        *)
(* [neg, mag] and stands for (-1)^neg * mag * 2^-FracBits.  Every result   *)
(* is rounded to 53 significant bits, ties to even, as the hardware does.  *)
(***************************************************************************)
LimbBase == 2^15
LimbBits == 3 * 5
FracBits == 5 * LimbBits
Pow2(k) == 2^k

Limb(x, i) == IF i >= 1 /\ i <= Len(x) THEN x[i] ELSE 0

RECURSIVE BigNorm(_)
BigNorm(x) ==
    IF x = <<>> THEN <<>>
    ELSE IF x[Len(x)] = 0 THEN BigNorm(SubSeq(x, 1, Len(x) - 1))
    ELSE x

BigFromNat(n) ==
    BigNorm(<< n % LimbBase, (n \div LimbBase) % LimbBase,
               n \div (LimbBase * LimbBase) >>)

RECURSIVE BigAddC(_, _, _, _)
BigAddC(x, y, i, c) ==
    IF i > Len(x) /\ i > Len(y)
    THEN (IF c = 0 THEN <<>> ELSE <<c>>)
    ELSE LET s == Limb(x, i) + Limb(y, i) + c
         IN  <<s % LimbBase>> \o BigAddC(x, y, i + 1, s \div LimbBase)

BigAdd(x, y) == BigNorm(BigAddC(x, y, 1, 0))

\* x - y for x >= y
RECURSIVE BigSubB(_, _, _, _)
BigSubB(x, y, i, b) ==
    IF i > Len(x) THEN <<>>
    ELSE LET s == Limb(x, i) - Limb(y, i) - b
         IN  IF s < 0
             THEN <<s + LimbBase>> \o BigSubB(x, y, i + 1, 1)
             ELSE <<s>> \o BigSubB(x, y, i + 1, 0)

BigSub(x, y) == BigNorm(BigSubB(x, y, 1, 0))

RECURSIVE BigLessFrom(_, _, _)
BigLessFrom(x, y, i) ==
    IF i = 0 THEN FALSE
    ELSE IF x[i] # y[i] THEN x[i] < y[i]
    ELSE BigLessFrom(x, y, i - 1)

BigLess(x, y) ==
    IF Len(x) # Len(y) THEN Len(x) < Len(y) ELSE BigLessFrom(x, y, Len(x))

RECURSIVE BigMulSmallC(_, _, _, _)
BigMulSmallC(x, m, i, c) ==
    IF i > Len(x)
    THEN (IF c = 0 THEN <<>> ELSE <<c>>)
    ELSE LET s == x[i] * m + c
         IN  <<s % LimbBase>> \o BigMulSmallC(x, m, i + 1, s \div LimbBase)

ZeroLimbs(n) == [i \in 1..n |-> 0]

RECURSIVE BigMulFrom(_, _, _)
BigMulFrom(x, y, j) ==
    IF j > Len(y) THEN <<>>
    ELSE BigAdd(BigNorm(ZeroLimbs(j - 1) \o BigMulSmallC(x, y[j], 1, 0)),
                BigMulFrom(x, y, j + 1))

BigMul(x, y) == BigMulFrom(x, y, 1)

\* floor(x / d) and x mod d for 0 < d < LimbBase
RECURSIVE BigDivSmallR(_, _)
BigDivSmallR(x, d) ==
    IF x = <<>> THEN [q |-> <<>>, r |-> 0]
    ELSE LET h   == BigDivSmallR(Tail(x), d)
             cur == h.r * LimbBase + Head(x)
         IN  [q |-> <<cur \div d>> \o h.q, r |-> cur % d]

BigDivSmall(x, d) ==
    LET h == BigDivSmallR(x, d) IN [q |-> BigNorm(h.q), r |-> h.r]

RECURSIVE BitLenNat(_)
BitLenNat(n) == IF n = 0 THEN 0 ELSE 1 + BitLenNat(n \div 2)

BigBitLen(x) ==
    IF x = <<>> THEN 0 ELSE (Len(x) - 1) * LimbBits + BitLenNat(x[Len(x)])

\* floor(x / 2^k)
BigShr(x, k) ==
    LET s == k \div LimbBits
        b == k % LimbBits
    IN  IF s >= Len(x) THEN <<>>
        ELSE BigNorm([i \in 1..(Len(x) - s) |->
                 (Limb(x, i + s) \div Pow2(b))
                 + (Limb(x, i + s + 1) % Pow2(b)) * Pow2(LimbBits - b)])

\* x * 2^k
BigShl(x, k) ==
    LET s == k \div LimbBits
        b == k % LimbBits
    IN  IF x = <<>> THEN <<>>
        ELSE BigNorm([i \in 1..(Len(x) + s + 1) |->
                 (Limb(x, i - s) % Pow2(LimbBits - b)) * Pow2(b)
                 + (Limb(x, i - s - 1) \div Pow2(LimbBits - b))])

BigOdd(x) == x # <<>> /\ x[1] % 2 = 1

\* x (with `sticky` saying that a non-zero part below the unit was already
\* dropped) rounded to 53 significant bits, round-half-to-even.
Round53(x, sticky) ==
    LET len == BigBitLen(x)
    IN  IF len <= 53 THEN x
        ELSE LET drop  == len - 53
                 q2    == BigShr(x, drop - 1)
                 st    == sticky \/ BigShl(q2, drop - 1) # x
                 guard == BigOdd(q2)
                 q     == BigShr(q2, 1)
                 up    == guard /\ (st \/ BigOdd(q))
             IN  BigShl(IF up THEN BigAdd(q, <<1>>) ELSE q, drop)

MkFloat(neg, mag) == [neg |-> neg /\ mag # <<>>, mag |-> mag]

\* the float nearest to the rational n / d (a literal such as 0.15 is
\* FRatio(15, 100); int / int true division is FRatio as well)
FRatio(n, d) ==
    LET a  == IF n < 0 THEN 0 - n ELSE n
        qr == BigDivSmall(BigShl(BigFromNat(a), FracBits), d)
    IN  MkFloat(n < 0, Round53(qr.q, qr.r # 0))

FInt(n) == FRatio(n, 1)

FAdd(a, b) ==
    IF a.neg = b.neg
    THEN MkFloat(a.neg, Round53(BigAdd(a.mag, b.mag), FALSE))
    ELSE IF BigLess(a.mag, b.mag)
         THEN MkFloat(b.neg, Round53(BigSub(b.mag, a.mag), FALSE))
         ELSE MkFloat(a.neg, Round53(BigSub(a.mag, b.mag), FALSE))

FNeg(a) == MkFloat(~a.neg, a.mag)

FSub(a, b) == FAdd(a, FNeg(b))

FLess(a, b) ==
    IF a.neg /\ ~b.neg THEN TRUE
    ELSE IF ~a.neg /\ b.neg THEN FALSE
    ELSE IF a.neg THEN BigLess(b.mag, a.mag)
    ELSE BigLess(a.mag, b.mag)

FLeq(a, b) == ~FLess(b, a)

\* Python's max(a, b) and min(a, b): the first argument wins a tie
FMax(a, b) == IF FLess(a, b) THEN b ELSE a
FMin(a, b) == IF FLess(b, a) THEN b ELSE a

\* a * b, kept in units of 2^-(2*FracBits) (the product is only ever compared
\* with other products)
FMul(a, b) ==
    MkFloat(a.neg # b.neg, Round53(BigMul(a.mag, b.mag), FALSE))

\* int * float for 0 <= k < LimbBase
FMulInt(k, a) ==
    MkFloat(a.neg, Round53(BigNorm(BigMulSmallC(a.mag, k, 1, 0)), FALSE))

F0 == FInt(0)
F1 == FInt(1)

\* the float literals of memory_manager.py
F0_5 == FRatio(1, 2)
F0_2 == FRatio(2, 10)
F0_1 == FRatio(1, 10)
F0_15 == FRatio(15, 100)
F0_05 == FRatio(5, 100)
F0_8 == FRatio(8, 10)
F0_4 == FRatio(4, 10)
F0_3 == FRatio(3, 10)
F0_7 == FRatio(7, 10)
F0_9 == FRatio(9, 10)
F0_85 == FRatio(85, 100)


(***************************************************************************)
(* Part 2.  Texts and MemoryManager.calculate_memory_importance.           *)
(*                                                                         *)
(* A text is a run of `pad` filler characters (characters that belong to   *)
(* no keyword, indicator or clue) followed by a sequence of tokens.  The   *)
(* tokens are the substrings the code searches for, written in ASCII:      *)
(* the keyword for 'promise' is "chengnuo", the full-width marks are     *)
(* "FW!" and "FW?", the single-character ellipsis is "ELLIPSIS".           *)
(* `x in text` is the occurrence of token x in the token sequence.         *)
(***************************************************************************)
important_keywords ==
    << "jide", "jizhu", "zhongyao", "chengnuo", "jueding",
       "chenggong", "wancheng", "tupo", "gaibian", "xuedao",
       "ganxie", "ai", "kaixin", "gandong", "zhenxi",
       "shengri", "jinian", "jieri", "lichengbei", "zhuanzhe" >>

emotional_indicators ==
    << "!", "FW!", "?", "FW?", "...", "ELLIPSIS",
       "hen", "feichang", "tebie", "zhende", "yiding" >>

\* a text: pad characters that match nothing, then the tokens
Text(pad, toks) == [pad |-> pad, toks |-> toks]
EmptyText == Text(0, <<>>)

\* dict.get(k, default) and d[k] = v
DictGet(d, k, default) == IF k \in DOMAIN d THEN d[k] ELSE default
DictSet(d, k, v) == [x \in (DOMAIN d) \cup {k} |-> IF x = k THEN v ELSE d[x]]

\* number of characters of a token
TokLen(tok) ==
    CASE tok \in {"!", "FW!", "?", "FW?", "ELLIPSIS", "hen", "ai", " ",
                  "\"", "\n", "\\"} -> 1
      [] tok = "lichengbei" -> 3
      [] tok \in {"...", "vip", "VIP"} -> 3
      [] tok = "" -> 0
      [] OTHER -> 2

RECURSIVE SumTokLen(_)
SumTokLen(toks) ==
    IF toks = <<>> THEN 0 ELSE TokLen(Head(toks)) + SumTokLen(Tail(toks))

\* len(text)
StrLen(text) == text.pad + SumTokLen(text.toks)

\* a + b
StrCat(a, b) == [pad |-> a.pad + b.pad, toks |-> a.toks \o b.toks]

Space == [pad |-> 0, toks |-> <<" ">>]

\* str.lower(): only the Latin tokens have case
LowerTok(tok) == IF tok = "VIP" THEN "vip" ELSE tok
StrLower(text) ==
    [pad |-> text.pad, toks |-> [i \in 1..Len(text.toks) |-> LowerTok(text.toks[i])]]

\* needle in text (the empty string is in every text)
StrIn(needle, text) ==
    needle = "" \/ \E i \in 1..Len(text.toks) : text.toks[i] = needle

\* for keyword in important_keywords: if keyword in full_text: +0.15; break
AnyKeyword(full_text) ==
    \E k \in 1..Len(important_keywords) : StrIn(important_keywords[k], full_text)

\* for clue in context_clues: if clue.lower() in full_text.lower(): += 0.1
RECURSIVE AddClues(_, _, _)
AddClues(importance, context_clues, full_text) ==
    IF context_clues = <<>> THEN importance
    ELSE AddClues(
            IF StrIn(LowerTok(Head(context_clues)), StrLower(full_text))
            THEN FAdd(importance, F0_1) ELSE importance,
            Tail(context_clues), full_text)

\* sum(1 for indicator in emotional_indicators if indicator in full_text)
EmotionalCount(full_text) ==
    Cardinality({k \in 1..Len(emotional_indicators) :
        StrIn(emotional_indicators[k], full_text)})

\* the clamp left out
ClampNone(importance) == importance

\* min(max(importance, 0.0), 1.0)
Clamp01(importance) == FMin(FMax(importance, F0), F1)

\* the importance before the final clamp
RawImportance(conversation, context_clues) ==
    LET user_message == DictGet(conversation, "user_message", EmptyText)
        bot_response == DictGet(conversation, "bot_response", EmptyText)
        full_text == StrCat(StrCat(user_message, Space), bot_response)
        message_len == StrLen(user_message)
        i0 == F0_5
        i1 == IF message_len > 300 THEN FAdd(i0, F0_2)
              ELSE IF message_len > 100 THEN FAdd(i0, F0_1)
              ELSE i0
        i2 == IF AnyKeyword(full_text) THEN FAdd(i1, F0_15) ELSE i1
        i3 == AddClues(i2, context_clues, full_text)
        i4 == FAdd(i3, FMin(FMulInt(EmotionalCount(full_text), F0_05),
                            F0_15))
        response_len == StrLen(bot_response)
        i5 == IF response_len > 200 THEN FAdd(i4, F0_1) ELSE i4
    IN  i5

\* the score returned without the final clamp
ImportanceUnclamped(conversation, context_clues) ==
    RawImportance(conversation, context_clues)

calculate_memory_importance(conversation, context_clues) ==
    Clamp01(RawImportance(conversation, context_clues))


(***************************************************************************)
(* Part 3.  MemoryManager.                                                 *)
(*                                                                         *)
(* The three files are the variables store (weighted_conversations.jsonl,  *)
(* one JSON object per line), archive (memory_decay.jsonl) and reinf       *)
(* (memory_reinforcement.json).  A JSON object is a function from its keys *)
(* to its values.  The clock `now` counts whole days; a timestamp          *)
(* (datetime.now().isoformat()) is [day, seq], seq telling apart the       *)
(* instants of one day, and ISO strings compare as the instants do.        *)
(***************************************************************************)
VARIABLES
    sc_in,      \* scorer: the turn being scored
    sc_out,     \* scorer: the value returned, NoValue before the call
    now,        \* the clock, in days
    nextSeq,    \* number of timestamps issued so far
    store,      \* weighted_conversations.jsonl
    archive,    \* memory_decay.jsonl
    reinf,      \* memory_reinforcement.json
    ret,        \* the last MemoryManager call: its name, arguments and result
    marked,     \* timestamps on which mark_trivial_memory found a record
    nMarks,     \* number of mark_trivial_memory calls so far
    jsonl,      \* weighted_conversations.jsonl, its lines as text
    written,    \* history: the dicts written to jsonl
    sweeping    \* the apply_memory_decay call that has read the store and
                \* not yet rewritten it

scoreVars == << sc_in, sc_out >>
memVars == << now, nextSeq, store, archive, reinf, ret, marked, nMarks,
             jsonl, written, sweeping >>

NoValue == "None"

(* ---------------- json.dumps and json.loads ---------------- *)
\* float(text) for a decimal literal [neg, int, frac] (digits before and
\* after the point): the double nearest to the number written
float_of_literal(lit) ==
    LET digits == lit.int \o lit.frac
        RECURSIVE Number(_, _)
        Number(acc, i) ==
            IF Len(acc) >= 0 /\ i > Len(digits) THEN acc
            ELSE Number(BigAdd(BigNorm(BigMulSmallC(acc, 10, 1, 0)),
                               BigFromNat(digits[i])), i + 1)
        RECURSIVE DivPow10(_, _, _)
        DivPow10(x, p, sticky) ==
            IF Len(x) >= 0 /\ p = 0 THEN [q |-> x, sticky |-> sticky]
            ELSE LET h == BigDivSmall(x, 10)
                 IN  DivPow10(h.q, p - 1, sticky \/ h.r # 0)
        d == DivPow10(BigShl(Number(<<>>, 1), FracBits), Len(lit.frac), FALSE)
    IN  MkFloat(lit.neg, Round53(d.q, d.sticky))

\* the decimal with `places` digits after the point nearest to x
FixedPlaces(x, places) ==
    LET RECURSIVE MulPow10(_, _)
        MulPow10(m, p) ==
            IF Len(m) >= 0 /\ p = 0 THEN m
            ELSE MulPow10(BigNorm(BigMulSmallC(m, 10, 1, 0)), p - 1)
        y    == MulPow10(x.mag, places)
        q    == BigShr(y, FracBits)
        rem  == BigSub(y, BigShl(q, FracBits))
        half == BigShl(<<1>>, FracBits - 1)
        n    == IF BigLess(half, rem) \/ (rem = half /\ BigOdd(q))
                THEN BigAdd(q, <<1>>) ELSE q
        RECURSIVE Digits(_, _)
        Digits(m, got) ==
            IF Len(m) >= 0 /\ Len(got) > places /\ m = <<>> THEN got
            ELSE LET h == BigDivSmall(m, 10)
                 IN  Digits(h.q, <<h.r>> \o got)
        all  == Digits(n, <<>>)
    IN  [neg  |-> x.neg,
         int  |-> SubSeq(all, 1, Len(all) - places),
         frac |-> SubSeq(all, Len(all) - places + 1, Len(all))]

\* two digits after the point, as '%.2f' writes a float
float_2f(x) == FixedPlaces(x, 2)

\* float.__repr__, which json.dumps writes: the shortest decimal that reads
\* back as x (17 significant digits always do)
float_repr(x) ==
    LET RECURSIVE Shortest(_)
        Shortest(places) ==
            IF places >= 20 \/ float_of_literal(FixedPlaces(x, places)) = x
            THEN FixedPlaces(x, places)
            ELSE Shortest(places + 1)
    IN  Shortest(1)

\* json.dumps(conversation, ensure_ascii=False): the JSON text of each value.
\* A str is written between quotes with the quote, the backslash and the
\* control characters escaped; None is null; an int is its digits.
json_dumps(conversation) ==
    LET esc(tok) == CASE tok = "\"" -> "\\\""
                      [] tok = "\\" -> "\\\\"
                      [] tok = "\n" -> "\\n"
                      [] OTHER -> tok
        RECURSIVE IntDigits(_)
        IntDigits(n) ==
            IF n < 10 THEN <<n>> ELSE Append(IntDigits(n \div 10), n % 10)
        text(k) ==
            LET v == conversation[k]
            IN  CASE k \in {"importance_score", "decay_factor"} ->
                       [j |-> "float", lit |-> float_repr(v)]
                  [] k \in {"message_length", "response_length", "review_count"} ->
                       [j |-> "int", digits |-> IntDigits(v)]
                  [] k \in {"user_message", "bot_response"} ->
                       [j |-> "text", pad |-> v.pad,
                        toks |-> [i \in DOMAIN v.toks |-> esc(v.toks[i])]]
                  [] k \in {"timestamp", "date"} -> [j |-> "string", s |-> v]
                  [] k = "is_trivial" -> [j |-> IF v THEN "true" ELSE "false"]
                  [] OTHER -> IF v = NoValue THEN [j |-> "null"]
                              ELSE [j |-> "string", s |-> v]
    IN  [k \in DOMAIN conversation |-> text(k)]

\* json.loads(line)
json_loads(line) ==
    LET unesc(tok) == CASE tok = "\\\"" -> "\""
                        [] tok = "\\\\" -> "\\"
                        [] tok = "\\n" -> "\n"
                        [] OTHER -> tok
        RECURSIVE DigitsInt(_)
        DigitsInt(ds) ==
            IF ds = <<>> THEN 0
            ELSE 10 * DigitsInt(SubSeq(ds, 1, Len(ds) - 1)) + ds[Len(ds)]
        value(k) ==
            LET t == line[k]
            IN  CASE t.j = "float" -> float_of_literal(t.lit)
                  [] t.j = "int" -> DigitsInt(t.digits)
                  [] t.j = "text" ->
                       [pad |-> t.pad, toks |-> [i \in DOMAIN t.toks |-> unesc(t.toks[i])]]
                  [] t.j = "string" -> t.s
                  [] t.j = "true" -> TRUE
                  [] t.j = "false" -> FALSE
                  [] t.j = "null" -> NoValue
    IN  [k \in DOMAIN line |-> value(k)]

\* [json.loads(line) for line in f if line.strip()]
ReadLines(lines) == [i \in DOMAIN lines |-> json_loads(lines[i])]

\* text[:n]
RECURSIVE TokPrefix(_, _)
TokPrefix(toks, n) ==
    IF toks = <<>> \/ TokLen(Head(toks)) > n THEN <<>>
    ELSE <<Head(toks)>> \o TokPrefix(Tail(toks), n - TokLen(Head(toks)))

StrPrefix(text, n) ==
    IF text.pad >= n THEN [pad |-> n, toks |-> <<>>]
    ELSE [pad |-> text.pad, toks |-> TokPrefix(text.toks, n - text.pad)]

TsLess(a, b) == a.day < b.day \/ (a.day = b.day /\ a.seq < b.seq)

StrInAny(needles, text) == \E n \in needles : StrIn(n, text)

_categorize_memory(conversation) ==
    LET full_text == StrLower(StrCat(StrCat(conversation.user_message, Space),
                                     conversation.bot_response))
    IN  IF StrInAny({"shengri", "jinian", "jieri", "zhounian"}, full_text)
        THEN "important_date"
        ELSE IF StrInAny({"chenggong", "wancheng", "tupo", "chengjiu"}, full_text)
        THEN "achievement"
        ELSE IF StrInAny({"chengnuo", "jueding", "mubiao", "jihua"}, full_text)
        THEN "commitment"
        ELSE IF StrInAny({"ai", "ganxie", "zhenxi", "gandong"}, full_text)
        THEN "emotional"
        ELSE "general"

Ellipsis3 == [pad |-> 0, toks |-> <<"...">>]

\* a promotion that appends nothing
PromoteNever(doc, conversation, t) == doc

\* the reinforcement document after _promote_to_core_memory(conversation)
_promote_to_core_memory(doc, conversation, t) ==
    LET core_memory ==
          [timestamp   |-> conversation.timestamp,
           user_id     |-> conversation.user_id,
           summary     |-> IF StrLen(conversation.user_message) > 50
                           THEN StrCat(StrPrefix(conversation.user_message, 50),
                                       Ellipsis3)
                           ELSE conversation.user_message,
           importance  |-> conversation.importance_score,
           category    |-> _categorize_memory(conversation),
           promoted_at |-> t]
    IN  IF "core_memories" \in DOMAIN doc
        THEN [doc EXCEPT !.core_memories = Append(@, core_memory)]
        ELSE doc   \* KeyError or JSONDecodeError, caught and logged

\* the conversation dict record_weighted_conversation builds; the optional
\* importance_score is [given |-> FALSE] for None, [given |-> TRUE, v |-> x]
\* for a float x
NewConversation(t, user_id, user_message, bot_response, importance_score, context_clues, session_id) ==
    LET conversation ==
          [timestamp       |-> t,
           date            |-> t.day,
           user_id         |-> user_id,
           session_id      |-> session_id,
           user_message    |-> user_message,
           bot_response    |-> bot_response,
           message_length  |-> StrLen(user_message),
           response_length |-> StrLen(bot_response)]
    IN  conversation @@
          [importance_score |->
               IF ~importance_score.given
               THEN calculate_memory_importance(conversation, context_clues)
               ELSE Clamp01(importance_score.v),
           review_count     |-> 0,
           last_reviewed    |-> NoValue,
           decay_factor     |-> F1]

(* ---------------- record_weighted_conversation ---------------- *)
Given(x) == [given |-> TRUE, v |-> x]
NotGiven == [given |-> FALSE]

record_weighted_conversation(user_id, user_message, bot_response, importance_score, context_clues, session_id) ==
    \E t \in {[day |-> now, seq |-> nextSeq]} :
    \E conversation \in {NewConversation(t, user_id, user_message, bot_response,
                              importance_score, context_clues, session_id)} :
        /\ nextSeq' = nextSeq + 1
        /\ store' = Append(store, conversation)
        /\ reinf' = IF FLeq(F0_8, conversation.importance_score)
                    THEN _promote_to_core_memory(reinf, conversation, t)
                    ELSE reinf
        /\ ret' = [op |-> "record", timestamp |-> t, user_id |-> user_id,
                   arg |-> importance_score,
                   importance |-> conversation.importance_score,
                   appended |-> TRUE, raised |-> FALSE]
        /\ UNCHANGED << now, archive, marked >>

\* memory_reinforcement.json after a write to it failed: open(..., 'w') has
\* truncated it, and json.load rejects what is left
MalformedDoc == [malformed |-> TRUE]

\* a handler of the failed append that goes on to the promotion
PromoteAfterAppendRaised(doc, conversation, t) ==
    IF FLeq(F0_8, conversation.importance_score)
    THEN _promote_to_core_memory(doc, conversation, t) ELSE doc

\* the reinforcement document when the append to the store raised: the
\* except clause of record_weighted_conversation logs and returns
AfterAppendRaised(doc, conversation, t) == doc

\* record_weighted_conversation when an I/O call raises.  "append": the open
\* or the write of the store file; "promote_read": reading the reinforcement
\* document; "promote_write": writing it back.  Every one of them is inside a
\* try block whose except clause logs and returns.
record_weighted_conversation_raises(user_id, user_message, bot_response, importance_score, context_clues, session_id, point) ==
    \E t \in {[day |-> now, seq |-> nextSeq]} :
    \E conversation \in {NewConversation(t, user_id, user_message, bot_response,
                              importance_score, context_clues, session_id)} :
        /\ nextSeq' = nextSeq + 1
        /\ point # "append" => FLeq(F0_8, conversation.importance_score)
        /\ store' = IF point = "append" THEN store ELSE Append(store, conversation)
        /\ reinf' = CASE point = "append" -> AfterAppendRaised(reinf, conversation, t)
                      [] point = "promote_read" -> reinf
                      [] point = "promote_write" -> MalformedDoc
        /\ ret' = [op |-> "record", timestamp |-> t, user_id |-> user_id,
                   arg |-> importance_score,
                   importance |-> conversation.importance_score,
                   appended |-> point # "append", raised |-> FALSE]
        /\ UNCHANGED << now, archive, marked >>

(* ---------------- apply_memory_decay ---------------- *)
\* what the loop body does with one conversation: keep it (possibly with a
\* new decay_factor) or archive it
DecayArchiveNever(decay_factor) == FALSE

\* if decay_factor < 0.1
DecayArchiveBelow(decay_factor) == FLess(decay_factor, F0_1)

\* the loop body with the importance test left out of the condition
DecayOneAgeOnly(conv, days_threshold) ==
    LET age_days == now - conv.timestamp.day
    IN  IF age_days > days_threshold
        THEN LET decay_factor ==
                     FMax(F0, FSub(F1, FRatio(age_days - days_threshold, 90)))
             IN  IF DecayArchiveBelow(decay_factor)
                 THEN [keep |-> FALSE, decayed |-> 1, conv |-> conv]
                 ELSE [keep |-> TRUE, decayed |-> 1,
                       conv |-> DictSet(conv, "decay_factor", decay_factor)]
        ELSE [keep |-> TRUE, decayed |-> 0, conv |-> conv]

DecayOne(conv, days_threshold) ==
    LET age_days == now - conv.timestamp.day
        importance == DictGet(conv, "importance_score", F0_5)
    IN  IF age_days > days_threshold /\ FLess(importance, F0_4)
        THEN LET decay_factor ==
                     FMax(F0, FSub(F1, FRatio(age_days - days_threshold, 90)))
             IN  IF DecayArchiveBelow(decay_factor)
                 THEN [keep |-> FALSE, decayed |-> 1, conv |-> conv]
                 ELSE [keep |-> TRUE, decayed |-> 1,
                       conv |-> DictSet(conv, "decay_factor", decay_factor)]
        ELSE [keep |-> TRUE, decayed |-> 0, conv |-> conv]

decay_record(conv) ==
    [timestamp   |-> conv.timestamp,
     user_id     |-> conv.user_id,
     archived_at |-> now,
     reason      |-> "low_importance_timeout",
     summary     |-> StrPrefix(conv.user_message, 100)]

\* the for loop of apply_memory_decay over conversations[i..]
RECURSIVE DecayLoop(_, _, _)
DecayLoop(conversations, i, days_threshold) ==
    IF i > Len(conversations)
    THEN [kept_conversations |-> <<>>, decay_records |-> <<>>,
          decayed |-> 0, kept |-> 0, archived |-> 0]
    ELSE LET one  == DecayOne(conversations[i], days_threshold)
             rest == DecayLoop(conversations, i + 1, days_threshold)
         IN  IF one.keep
             THEN [rest EXCEPT !.kept_conversations = <<one.conv>> \o @,
                               !.decayed = @ + one.decayed,
                               !.kept = @ + 1]
             ELSE [rest EXCEPT !.decay_records = <<decay_record(one.conv)>> \o @,
                               !.decayed = @ + one.decayed,
                               !.archived = @ + 1]

apply_memory_decay(days_threshold) ==
    \E r \in {DecayLoop(store, 1, days_threshold)} :
        /\ store' = r.kept_conversations
        /\ archive' = archive \o r.decay_records
        /\ ret' = [op |-> "decay", days_threshold |-> days_threshold,
                   error |-> FALSE, decayed |-> r.decayed, kept |-> r.kept,
                   archived |-> r.archived]
        /\ UNCHANGED << now, nextSeq, reinf, marked >>

\* a sweep that yields to the event loop between the read and the rewrite
DecayAwaitsAfterReadYes == TRUE

\* apply_memory_decay is a plain function: between its read of the store and
\* its rewrite there is no await, so the event loop runs nothing else there
DecayAwaitsAfterRead == FALSE

\* apply_memory_decay from the end of its read on: the loop over the
\* conversations it read, the rewrite of the store and the archive log
apply_memory_decay_rewrite ==
    /\ sweeping.reading
    /\ \E r \in {DecayLoop(sweeping.conversations, 1, sweeping.days_threshold)} :
        /\ store' = r.kept_conversations
        /\ archive' = archive \o r.decay_records
        /\ ret' = [op |-> "decay", days_threshold |-> sweeping.days_threshold,
                   error |-> FALSE, decayed |-> r.decayed, kept |-> r.kept,
                   archived |-> r.archived]
    /\ sweeping' = [reading |-> FALSE]
    /\ UNCHANGED << now, nextSeq, reinf, marked >>

\* apply_memory_decay when an I/O call raises: the except clause returns the
\* error result.  "read": before the store file is reopened for writing,
\* nothing has changed.  "rewrite": open(..., 'w') has truncated the store and
\* only the first n kept lines were written.  "archive": the store has been
\* rewritten and the append to the archive log raises after n lines.
apply_memory_decay_raises(days_threshold, point, n) ==
    \E r \in {DecayLoop(store, 1, days_threshold)} :
        /\ CASE point = "read" ->
                 /\ n = 0
                 /\ UNCHANGED << store, archive >>
          [] point = "rewrite" ->
                 /\ n < Len(r.kept_conversations)
                 /\ store' = SubSeq(r.kept_conversations, 1, n)
                 /\ UNCHANGED archive
          [] point = "archive" ->
                 /\ n < Len(r.decay_records)
                 /\ store' = r.kept_conversations
                 /\ archive' = archive \o SubSeq(r.decay_records, 1, n)
        /\ ret' = [op |-> "decay", days_threshold |-> days_threshold,
                   error |-> TRUE, decayed |-> 0, kept |-> 0, archived |-> 0]
        /\ UNCHANGED << now, nextSeq, reinf, marked >>

(* ---------------- mark_trivial_memory ---------------- *)
\* index of the first conversation whose timestamp is memory_id, 0 if none
RECURSIVE FirstWithTimestamp(_, _, _)
FirstWithTimestamp(conversations, memory_id, i) ==
    IF i > Len(conversations) THEN 0
    ELSE IF conversations[i].timestamp = memory_id THEN i
    ELSE FirstWithTimestamp(conversations, memory_id, i + 1)

TrivialImportance(importance) == FMax(F0, FSub(importance, F0_3))

MarkConv(conv, reason) ==
    DictSet(DictSet(DictSet(conv, "is_trivial", TRUE), "trivial_reason", reason),
            "importance_score",
            TrivialImportance(DictGet(conv, "importance_score", F0_5)))

mark_trivial_memory(memory_id, reason) ==
    LET k == FirstWithTimestamp(store, memory_id, 1)
    IN  /\ store' = IF k = 0 THEN store
                    ELSE [store EXCEPT ![k] = MarkConv(store[k], reason)]
        /\ marked' = IF k = 0 THEN marked ELSE marked \cup {memory_id}
        /\ ret' = [op |-> "mark", memory_id |-> memory_id]
        /\ UNCHANGED << now, nextSeq, archive, reinf >>

(* ---------------- get_important_memories ---------------- *)
\* the filter without its is_trivial test
QualifiesIgnoringTrivial(c, user_id, threshold) ==
    /\ FLeq(threshold, DictGet(c, "importance_score", F0))
    /\ (user_id = NoValue \/ DictGet(c, "user_id", NoValue) = user_id)

\* the filter of the list comprehension; user_id is NoValue for None
Qualifies(c, user_id, threshold) ==
    /\ FLeq(threshold, DictGet(c, "importance_score", F0))
    /\ (user_id = NoValue \/ DictGet(c, "user_id", NoValue) = user_id)
    /\ ~DictGet(c, "is_trivial", FALSE)

\* a sort key without the timestamp component
SortKeyProductOnly(x) ==
    [p |-> FMul(DictGet(x, "importance_score", F0), DictGet(x, "decay_factor", F1)),
     t |-> [day |-> 0, seq |-> 0]]

\* the sort key: (importance_score * decay_factor, timestamp)
SortKey(x) ==
    [p |-> FMul(DictGet(x, "importance_score", F0), DictGet(x, "decay_factor", F1)),
     t |-> x.timestamp]

KeyLess(a, b) == FLess(a.p, b.p) \/ (a.p = b.p /\ TsLess(a.t, b.t))

\* sorted(..., reverse=True) is stable: x goes after every element whose key
\* is not smaller than its own
RECURSIVE InsertDesc(_, _)
InsertDesc(sorted, x) ==
    IF sorted = <<>> THEN <<x>>
    ELSE IF KeyLess(SortKey(Head(sorted)), SortKey(x))
         THEN <<x>> \o sorted
         ELSE <<Head(sorted)>> \o InsertDesc(Tail(sorted), x)

RECURSIVE SortedDesc(_, _)
SortedDesc(xs, i) ==
    IF i = 0 THEN <<>> ELSE InsertDesc(SortedDesc(xs, i - 1), xs[i])

RECURSIVE Filter(_, _, _, _)
Filter(conversations, i, user_id, threshold) ==
    IF i > Len(conversations) THEN <<>>
    ELSE (IF Qualifies(conversations[i], user_id, threshold)
          THEN <<conversations[i]>> ELSE <<>>)
         \o Filter(conversations, i + 1, user_id, threshold)

\* xs[:limit] for limit >= 0
Slice(xs, limit) == SubSeq(xs, 1, IF limit < Len(xs) THEN limit ELSE Len(xs))

important_memories(conversations, user_id, threshold, limit) ==
    LET filtered == Filter(conversations, 1, user_id, threshold)
        sorted_memories == SortedDesc(filtered, Len(filtered))
    IN  Slice(sorted_memories, limit)

get_important_memories(user_id, threshold, limit) ==
    /\ ret' = [op |-> "query", user_id |-> user_id, threshold |-> threshold,
               limit |-> limit,
               result |-> important_memories(store, user_id, threshold, limit)]
    /\ UNCHANGED << now, nextSeq, store, archive, reinf, marked >>

(* ---------------- reinforcement ---------------- *)
\* effectiveness_map.get(reinforcement_type, 0.5)
_get_reinforcement_effectiveness(reinforcement_type) ==
    CASE reinforcement_type = "manual_recall"   -> F0_9
      [] reinforcement_type = "context_trigger" -> F0_7
      [] reinforcement_type = "anniversary"     -> F0_8
      [] reinforcement_type = "milestone"       -> F0_85
      [] reinforcement_type = "passive_recall"  -> F0_5
      [] OTHER                                  -> F0_5

\* the event of one reinforce_memory call
reinforcement_event(memory_id, reinforcement_type) ==
    [timestamp     |-> now,
     memory_id     |-> memory_id,
     type          |-> reinforcement_type,
     effectiveness |-> _get_reinforcement_effectiveness(reinforcement_type)]

\* a reinforcement that also counts the review on the record it names
reinforce_memory_reviewing(memory_id, reinforcement_type) ==
    /\ reinf' = [reinf EXCEPT
                   !.reinforcement_log =
                       Append(@, reinforcement_event(memory_id, reinforcement_type)),
                   !.last_review = now]
    /\ store' = [i \in DOMAIN store |->
                   IF store[i].timestamp = memory_id
                   THEN [store[i] EXCEPT !.review_count = @ + 1]
                   ELSE store[i]]
    /\ ret' = [op |-> "reinforce", memory_id |-> memory_id,
               type |-> reinforcement_type]
    /\ UNCHANGED << now, nextSeq, archive, marked >>

reinforce_memory(memory_id, reinforcement_type) ==
    /\ reinf' = IF "reinforcement_log" \in DOMAIN reinf
                THEN [reinf EXCEPT
                        !.reinforcement_log =
                            Append(@, reinforcement_event(memory_id,
                                                          reinforcement_type)),
                        !.last_review = now]
                ELSE reinf   \* KeyError or JSONDecodeError, caught and logged
    /\ ret' = [op |-> "reinforce", memory_id |-> memory_id,
               type |-> reinforcement_type]
    /\ UNCHANGED << now, nextSeq, store, archive, marked >>

(* ---------------- the passage of time ---------------- *)
Advance(days) ==
    /\ now' = now + days
    /\ ret' = [op |-> "advance"]
    /\ UNCHANGED << nextSeq, store, archive, reinf, marked >>


(* ---------------- the store as a text file ---------------- *)
\* The same calls with weighted_conversations.jsonl kept as the text that
\* json.dumps writes, one line per record, and read with json.loads.
record_weighted_conversation_text(user_id, user_message, bot_response, importance_score, context_clues, session_id) ==
    \E t \in {[day |-> now, seq |-> nextSeq]} :
    \E conversation \in {NewConversation(t, user_id, user_message, bot_response,
                              importance_score, context_clues, session_id)} :
        /\ nextSeq' = nextSeq + 1
        /\ jsonl' = Append(jsonl, json_dumps(conversation))
        /\ written' = Append(written, conversation)
        /\ reinf' = IF FLeq(F0_8, conversation.importance_score)
                    THEN _promote_to_core_memory(reinf, conversation, t)
                    ELSE reinf
        /\ ret' = [op |-> "record", timestamp |-> t, user_id |-> user_id,
                   arg |-> importance_score,
                   importance |-> conversation.importance_score,
                   appended |-> TRUE, raised |-> FALSE]
        /\ UNCHANGED << now, store, archive, marked >>

apply_memory_decay_text(days_threshold) ==
    \E r \in {DecayLoop(ReadLines(jsonl), 1, days_threshold)} :
        /\ jsonl' = [i \in DOMAIN r.kept_conversations |->
                        json_dumps(r.kept_conversations[i])]
        /\ archive' = archive \o r.decay_records
        /\ ret' = [op |-> "decay", days_threshold |-> days_threshold,
                   error |-> FALSE, decayed |-> r.decayed, kept |-> r.kept,
                   archived |-> r.archived]
        /\ UNCHANGED << now, nextSeq, store, reinf, marked, written >>

get_important_memories_text(user_id, threshold, limit) ==
    /\ ret' = [op |-> "query", user_id |-> user_id, threshold |-> threshold,
               limit |-> limit,
               result |-> important_memories(ReadLines(jsonl), user_id,
                                             threshold, limit)]
    /\ UNCHANGED << now, nextSeq, store, archive, reinf, marked, jsonl, written >>


(***************************************************************************)
(* Part 4.  AutoPublish (core/scheduler.py).                               *)
(*                                                                         *)
(* Local time is [day, minute]: the date as a day number and the minute of *)
(* the day.  The object `ap` holds the attributes of the AutoPublish       *)
(* instance together with the jobs of its scheduler: the one-shot publish  *)
(* jobs, the names of the registered periodic jobs and the next run of the *)
(* half-hourly interval.  A periodic job whose trigger has fired waits in  *)
(* ap_due until it runs; jobs due at the same instant run in any order.    *)
(* A window is [fmt |-> "hours", start_hour, end_hour] for "9-12" and      *)
(* [fmt |-> "clock", start_hour, start_minute, end_hour, end_minute] for   *)
(* "20:00-20:20".                                                          *)
(***************************************************************************)
VARIABLES
    ap,         \* the AutoPublish instance and its scheduler's jobs
    ap_now,     \* local time
    ap_due,     \* periodic jobs triggered and not yet run
    ap_ret,     \* the last job or call that ran, and what it did
    nCalls,     \* do_task calls so far
    ap_failed   \* history: a publish has raised

pubVars == << ap, ap_now, ap_due, ap_ret, nCalls, ap_failed >>

\* last_publish_date = "": a date that is no day
NoDate == 0 - 1
MinutesPerDay == 24 * 60

TimeLess(a, b) == a.day < b.day \/ (a.day = b.day /\ a.minute < b.minute)

AddMinutes(t, k) ==
    [day    |-> t.day + ((t.minute + k) \div MinutesPerDay),
     minute |-> (t.minute + k) % MinutesPerDay]

HourOf(t) == t.minute \div 60

\* the outcomes of random.randint(a, b) that are explored: both ends
RandInt(a, b) == IF a > b THEN {} ELSE {a, b}

\* the (random_hour, random_minute) pairs one slot can draw from time_range
Draws(time_range) ==
    IF time_range.fmt = "clock"
    THEN LET start_total_minutes ==
                 time_range.start_hour * 60 + time_range.start_minute
             end_total_minutes ==
                 time_range.end_hour * 60 + time_range.end_minute
         IN  IF end_total_minutes <= start_total_minutes
             THEN LET to_midnight == 24 * 60 - start_total_minutes
                      total_minutes_diff == to_midnight + end_total_minutes
                      offsets == RandInt(0, total_minutes_diff)
                                   \cup ({to_midnight, to_midnight + 1}
                                           \cap (0..total_minutes_diff))
                      final(random_offset) ==
                          IF random_offset <= to_midnight
                          THEN start_total_minutes + random_offset
                          ELSE (random_offset - to_midnight) % (24 * 60)
                  IN  { [hour |-> final(o) \div 60, minute |-> final(o) % 60] :
                          o \in offsets }
             ELSE { [hour |-> t \div 60, minute |-> t % 60] :
                      t \in RandInt(start_total_minutes, end_total_minutes) }
    ELSE { [hour |-> h, minute |-> m] :
             h \in RandInt(time_range.start_hour, time_range.end_hour - 1),
             m \in RandInt(0, 59) }

\* a selection that stays on the last window instead of starting over
SlotRangeNoWrap(self, i) ==
    self.publish_time_ranges[
        IF i < Len(self.publish_time_ranges) THEN i + 1
        ELSE Len(self.publish_time_ranges)]

\* time_range = self.publish_time_ranges[i % len(self.publish_time_ranges)]
SlotRange(self, i) ==
    self.publish_time_ranges[(i % Len(self.publish_time_ranges)) + 1]

\* one draw for each of the publish_times_per_day slots
DrawSeqs(self) ==
    LET N   == self.publish_times_per_day
        all == UNION { Draws(self.publish_time_ranges[k]) :
                         k \in DOMAIN self.publish_time_ranges }
    IN  { d \in [1..N -> all] : \A i \in 1..N : d[i] \in Draws(SlotRange(self, i - 1)) }

\* a loop that moves a slot whose instant has passed to the next day
RECURSIVE PlanSlotsMovePassed(_, _, _, _)
PlanSlotsMovePassed(self, tnow, draws, i) ==
    IF i >= self.publish_times_per_day THEN [jobs |-> {}, raised |-> FALSE]
    ELSE IF draws[i + 1].hour > 23 THEN [jobs |-> {}, raised |-> TRUE]
    ELSE LET rest == PlanSlotsMovePassed(self, tnow, draws, i + 1)
             minute == draws[i + 1].hour * 60 + draws[i + 1].minute
             target_time == [day |-> IF minute <= tnow.minute THEN tnow.day + 1
                                     ELSE tnow.day,
                             minute |-> minute]
         IN  [rest EXCEPT !.jobs = @ \cup {[slot |-> i, run_date |-> target_time]}]

\* the loop of _schedule_today_posts from slot i on: the jobs it adds, and
\* whether now.replace raised (an hour outside 0..23) and ended it
RECURSIVE PlanSlots(_, _, _, _)
PlanSlots(self, tnow, draws, i) ==
    IF i >= self.publish_times_per_day THEN [jobs |-> {}, raised |-> FALSE]
    ELSE IF draws[i + 1].hour > 23 THEN [jobs |-> {}, raised |-> TRUE]
    ELSE LET rest == PlanSlots(self, tnow, draws, i + 1)
             target_time == [day |-> tnow.day,
                             minute |-> draws[i + 1].hour * 60 + draws[i + 1].minute]
         IN  IF target_time.minute <= tnow.minute
             THEN rest
             ELSE [rest EXCEPT !.jobs = @ \cup {[slot |-> i, run_date |-> target_time]}]

_schedule_today_posts(self, tnow, draws) ==
    IF self.last_publish_date = tnow.day
    THEN self
    ELSE [self EXCEPT !.last_publish_date = tnow.day,
                      !.jobs = @ \cup PlanSlots(self, tnow, draws, 0).jobs]

_reset_and_schedule_today(self, tnow, draws) ==
    _schedule_today_posts(
        [self EXCEPT !.today_publish_count = 0, !.last_publish_date = tnow.day],
        tnow, draws)

\* a _publish_post that counts an insomnia post like a regular one
_publish_post_counting_all(self, tnow, insomnia) ==
    LET s1 == IF self.last_publish_date # tnow.day
              THEN [self EXCEPT !.today_publish_count = 0,
                                !.last_publish_date = tnow.day]
              ELSE self
    IN  IF ~insomnia /\ s1.today_publish_count >= s1.publish_times_per_day
        THEN [self |-> s1, passed |-> FALSE]
        ELSE [self |-> [s1 EXCEPT !.today_publish_count = @ + 1], passed |-> TRUE]

\* _publish_post up to the call of the operator: the instance afterwards and
\* whether the limit check let the post through
_publish_post(self, tnow, insomnia) ==
    LET s1 == IF self.last_publish_date # tnow.day
              THEN [self EXCEPT !.today_publish_count = 0,
                                !.last_publish_date = tnow.day]
              ELSE self
    IN  IF insomnia THEN [self |-> s1, passed |-> TRUE]
        ELSE IF s1.today_publish_count >= s1.publish_times_per_day
        THEN [self |-> s1, passed |-> FALSE]
        ELSE [self |-> [s1 EXCEPT !.today_publish_count = @ + 1], passed |-> TRUE]

\* AutoPublish.__init__ run at time tnow
AutoPublish__init__(config, tnow, draws) ==
    LET self == [publish_times_per_day |-> config.publish_times_per_day,
                 publish_time_ranges   |-> config.publish_time_ranges,
                 today_publish_count   |-> 0,
                 last_publish_date     |-> NoDate,
                 jobs                  |-> {},
                 periodic              |-> {"daily_reset_scheduler"},
                 next_check            |-> AddMinutes(tnow, 30)]
        planned == _schedule_today_posts(self, tnow, draws)
    IN  \* an exception in _schedule_daily_posts ends __init__ before
        \* _schedule_insomnia_check; the started scheduler keeps its jobs
        IF PlanSlots(self, tnow, draws, 0).raised
        THEN planned
        ELSE [planned EXCEPT !.periodic = @ \cup {"insomnia_checker"}]

(***************************************************************************)
(* Part 5.  AutoRandomCronTask (core/scheduler.py).                        *)
(*                                                                         *)
(* Time is counted in half seconds, so that an instant can lie between two *)
(* whole seconds.  The cron expression fires every CronPeriod seconds, at  *)
(* the multiples of the period.  `ct` is the task object with the jobs of  *)
(* its AsyncIOScheduler: the cron job (registered, next_fire), the pending *)
(* one-shot jobs (their run dates) and the run dates that calls of         *)
(* schedule_random_job have computed and not yet added.  The scheduler     *)
(* runs schedule_random_job, a plain function, in the thread pool of the   *)
(* event loop, and _run_task_wrapper, a coroutine, on the loop itself; it  *)
(* logs an exception a job raises and goes on.                             *)
(***************************************************************************)
VARIABLES
    ct          \* the AutoRandomCronTask instance, its clock and its history

CronPeriod == 60

\* no instance
NoCronTask ==
    [registered |-> FALSE, next_fire |-> 0, adding |-> {}, jobs |-> {},
     now |-> 0, terminated |-> FALSE, first_fire |-> 0, runs |-> <<>>,
     ret |-> [op |-> "init"]]

\* CronTrigger.get_next_fire_time(None, now): the first boundary that is not
\* before `now` rounded up to a whole second
get_next_fire_time(tnow) ==
    LET ceil == ((tnow + 1) \div 2) * 2
        step == 2 * CronPeriod
    IN  ((ceil + step - 1) \div step) * step

\* the delay drawn from the whole period, whatever the time left in it
schedule_in_full_period(tnow) ==
    { tnow + 2 * delay : delay \in RandInt(0, CronPeriod) }

\* schedule_random_job at time tnow: the run dates now + delay it can choose
schedule_random_job(tnow) ==
    LET next_run == get_next_fire_time(tnow)
        cycle_seconds == (next_run - tnow) \div 2
    IN  { tnow + 2 * delay : delay \in RandInt(0, cycle_seconds) }

\* AutoRandomCronTask.__init__ at time tnow; register_task logs a cron
\* expression that does not parse and registers nothing
AutoRandomCronTask__init__(tnow, cron_ok) ==
    [NoCronTask EXCEPT !.registered = cron_ok,
                       !.next_fire = get_next_fire_time(tnow),
                       !.first_fire = get_next_fire_time(tnow),
                       !.now = tnow,
                       !.ret = [op |-> "__init__"]]


(***************************************************************************)
(* Part 6.  Smaller components, each in a variable of its own.             *)
(***************************************************************************)
VARIABLES
    poll,       \* LLMAction._request_modelscope: its task-polling loop
    dpoll,      \* main.py _request_modelscope: the draw tool's polling loop
    hb,         \* HabitBalanceSystem and its clock
    ee,         \* ExpressionEvolution
    fl,         \* _publish_post coroutines awaiting the operator
    pm,         \* ProactiveMessageManager, its loop and its callers
    pu,         \* AutoProfileUpdater and its check_and_update coroutines
    ix          \* the interaction handler: sessions and their decay calls

partVars == << poll, dpoll, hb, ee, fl, pm, pu, ix >>

\* a component that is not running
Unused == [used |-> FALSE]
PartsIdle ==
    /\ poll = Unused /\ dpoll = Unused /\ hb = Unused /\ ee = Unused
    /\ fl = Unused /\ pm = Unused /\ pu = Unused /\ ix = Unused

(* ---------------- the task-polling loops ---------------- *)
max_retries == 30
max_delay == 10

\* a backoff without the cap
next_delay_doubling(delay) == delay * 2

\* delay = min(delay * 2, 10)
next_delay(delay) == IF delay * 2 < max_delay THEN delay * 2 ELSE max_delay

\* what one status query can bring: a task_status that is neither SUCCEED
\* nor FAILED, SUCCEED with and without output_images, FAILED, a status
\* code other than 200, and an exception of the HTTP client
PollResponses ==
    { "PENDING", "SUCCEED_image", "SUCCEED_empty", "FAILED", "http_error",
      "client_error" }

\* the loop of LLMAction._request_modelscope is entered
PollStart ==
    [used |-> TRUE, pc |-> "query", delay |-> 1, retry_count |-> 0,
     image_url |-> FALSE, queries |-> 0, waits |-> <<>>, last |-> "none",
     outcome |-> "running"]

\* one pass of the while loop up to asyncio.sleep: the status query
PollQuery ==
    /\ poll.used /\ poll.pc = "query"
    /\ \E response \in PollResponses :
        poll' =
          LET p == [poll EXCEPT !.queries = @ + 1, !.last = response]
          IN  CASE response = "SUCCEED_image" ->
                     \* break; image_url is set: download and return
                     [p EXCEPT !.image_url = TRUE, !.pc = "done",
                               !.outcome = "image"]
                [] response \in {"SUCCEED_empty", "FAILED"} ->
                     \* break; image_url is None: raise ValueError
                     [p EXCEPT !.pc = "done", !.outcome = "raise"]
                [] response = "client_error" ->
                     [p EXCEPT !.pc = "done", !.outcome = "raise"]
                [] OTHER -> [p EXCEPT !.pc = "sleep"]

\* await asyncio.sleep(delay); delay = min(delay * 2, 10); retry_count += 1
PollSleep ==
    /\ poll.used /\ poll.pc = "sleep"
    /\ poll' =
          LET p == [poll EXCEPT !.waits = Append(@, poll.delay),
                                !.delay = next_delay(poll.delay),
                                !.retry_count = @ + 1]
          IN  IF p.retry_count < max_retries
              THEN [p EXCEPT !.pc = "query"]
              ELSE [p EXCEPT !.pc = "done", !.outcome = "raise"]

\* the polling loop of the draw tool (main.py) is entered; attempts counts
\* the status queries up to MaxPolls and stays there
DrawPollStart ==
    [used |-> TRUE, pc |-> "query", delay |-> 1, attempts |-> 0,
     waits |-> <<>>, last |-> "none", outcome |-> "running"]

\* one pass of `while True` up to asyncio.sleep: raise_for_status, the json
\* of the answer, and the return or raise on SUCCEED and FAILED
DrawPollQuery(MaxAttempts) ==
    /\ dpoll.used /\ dpoll.pc = "query"
    /\ \E response \in PollResponses :
        dpoll' =
          LET p == [dpoll EXCEPT
                      !.attempts = IF @ < MaxAttempts THEN @ + 1 ELSE @,
                      !.last = response]
          IN  CASE response = "SUCCEED_image" ->
                     [p EXCEPT !.pc = "done", !.outcome = "image"]
                [] response \in {"SUCCEED_empty", "FAILED", "http_error",
                                 "client_error"} ->
                     [p EXCEPT !.pc = "done", !.outcome = "raise"]
                [] OTHER -> [p EXCEPT !.pc = "sleep"]

\* await asyncio.sleep(delay); delay = min(delay * 2, max_delay)
DrawPollSleep(MaxAttempts) ==
    /\ dpoll.used /\ dpoll.pc = "sleep"
    /\ dpoll' = [dpoll EXCEPT
                   !.waits = IF Len(@) < MaxAttempts THEN Append(@, dpoll.delay)
                             ELSE @,
                   !.delay = next_delay(dpoll.delay),
                   !.pc = "query"]

(* ---------------- HabitBalanceSystem ---------------- *)
\* The clock hb.time counts hours (time.time() / 3600, never 0); the date is
\* the day it falls in.  hb.armed: the last should_trigger_surprise returned
\* True and no surprise has been recorded since.  hb.surprises: history, the
\* times of the record_surprise calls.
HoursPerDay == 24
DateOf(t) == t \div HoursPerDay

\* __init__ at time t, with the phase and the day count _load_state found
HabitBalanceSystem__init__(t, change_phase, days_in_phase) ==
    [used |-> TRUE, time |-> t,
     core_habits |-> << "c1", "c2", "c3", "c4" >>,
     temporary_habits |-> << "t1", "t2" >>,
     change_phase |-> change_phase, days_in_phase |-> days_in_phase,
     last_change_date |-> DateOf(t),
     last_surprise_time |-> 0, surprise_count_24h |-> 0,
     surprise_reset_time |-> t,
     armed |-> FALSE, surprises |-> <<>>, ret |-> "__init__"]

\* _inject_new_element with new_habit = random.choice(new_habits)
_inject_new_element(self, new_habit) ==
    IF \E k \in DOMAIN self.temporary_habits : self.temporary_habits[k] = new_habit
    THEN self
    ELSE [self EXCEPT !.temporary_habits =
            Append(IF Len(@) >= 5 THEN Tail(@) ELSE @, new_habit)]

\* a check that switches phase after 14 days whatever the phase
daily_check_fortnightly(self, new_habit) ==
    LET today == DateOf(self.time)
    IN  IF today > self.last_change_date
        THEN LET s == [self EXCEPT
                         !.days_in_phase = @ + (today - self.last_change_date),
                         !.last_change_date = today]
             IN  IF s.days_in_phase >= 14
                 THEN [s EXCEPT !.change_phase =
                                   IF @ = "stable" THEN "changing" ELSE "stable",
                                !.days_in_phase = 0]
                 ELSE s
        ELSE self

daily_check(self, new_habit) ==
    LET today == DateOf(self.time)
    IN  IF today > self.last_change_date
        THEN LET s == [self EXCEPT
                         !.days_in_phase = @ + (today - self.last_change_date),
                         !.last_change_date = today]
             IN  IF s.change_phase = "stable" /\ s.days_in_phase >= 14
                 THEN \* _enter_changing_phase
                      _inject_new_element(
                          [s EXCEPT !.change_phase = "changing",
                                    !.days_in_phase = 0], new_habit)
                 ELSE IF s.change_phase = "changing" /\ s.days_in_phase >= 7
                 THEN \* _enter_stable_phase
                      [s EXCEPT !.change_phase = "stable", !.days_in_phase = 0]
                 ELSE s
        ELSE self

\* should_trigger_surprise with `lucky` for random.random() < probability;
\* the probability is min(0.5, hours_since_last / 24), above 0 whenever the
\* six-hour test has passed
should_trigger_surprise(self, lucky) ==
    LET now1 == self.time
        s == IF now1 - self.surprise_reset_time > 24
             THEN [self EXCEPT !.surprise_count_24h = 0,
                               !.surprise_reset_time = now1]
             ELSE self
        result == IF s.surprise_count_24h >= 3 THEN FALSE
                  ELSE IF s.last_surprise_time # 0
                          /\ now1 - s.last_surprise_time < 6 THEN FALSE
                  ELSE lucky
    IN  [s EXCEPT !.armed = result, !.ret = "should_trigger_surprise"]

record_surprise(self) ==
    [self EXCEPT !.last_surprise_time = self.time,
                 !.surprise_count_24h = @ + 1,
                 !.surprises = Append(@, self.time),
                 !.armed = FALSE, !.ret = "record_surprise"]

(* ---------------- ExpressionEvolution ---------------- *)
\* int(x) of a float 0 <= x < LimbBase
FTrunc(a) ==
    LET q == BigShr(a.mag, FracBits) IN IF q = <<>> THEN 0 ELSE q[1]

Min(a, b) == IF a < b THEN a ELSE b

\* no state file
NoSavedExpression ==
    [vocabulary_level |-> 1, humor_maturity |-> 1, learned_words |-> {},
     jokes_told |-> 0, jokes_successful |-> 0]

\* __init__ followed by _load_state, which finds `saved` in the state file
ExpressionEvolution__init__(saved) ==
    [used |-> TRUE,
     vocabulary_level |-> saved.vocabulary_level,
     humor_maturity |-> saved.humor_maturity,
     learned_words |-> saved.learned_words,
     jokes_told |-> saved.jokes_told,
     jokes_successful |-> saved.jokes_successful,
     ret |-> "__init__"]

\* iterating a str gives its characters, iterating a list its items
CharsOf(n) == [i \in 1..n |-> [w |-> i, len |-> 1]]

\* `content` is the sequence `for w in content` runs through
learn_from_content(self, content) ==
    LET words == SelectSeq(content, LAMBDA w : w.len > 2 /\ w \notin self.learned_words)
        learned == self.learned_words \cup
                   { words[i] : i \in 1..Min(5, Len(words)) }
        new_level == Min(10, Cardinality(learned) \div 100 + 1)
    IN  IF words # <<>>
        THEN [self EXCEPT !.learned_words = learned,
                          !.vocabulary_level =
                              IF new_level > @ THEN new_level ELSE @,
                          !.ret = "learn_from_content"]
        ELSE [self EXCEPT !.ret = "learn_from_content"]

\* new maturity computed from the first joke on
record_joke_eager(self, success) ==
    LET told == self.jokes_told + 1
        successful == self.jokes_successful + (IF success THEN 1 ELSE 0)
        new_maturity == Min(10, FTrunc(FMulInt(10, FRatio(successful, told))))
    IN  [self EXCEPT !.jokes_told = told, !.jokes_successful = successful,
                     !.humor_maturity =
                         IF new_maturity > @ THEN new_maturity ELSE @,
                     !.ret = "record_joke"]

record_joke(self, success) ==
    LET told == self.jokes_told + 1
        successful == self.jokes_successful + (IF success THEN 1 ELSE 0)
        success_rate == FRatio(successful, told)
        new_maturity == Min(10, FTrunc(FMulInt(10, success_rate)))
    IN  [self EXCEPT !.jokes_told = told, !.jokes_successful = successful,
                     !.humor_maturity =
                         IF told >= 10 /\ new_maturity > @
                         THEN new_maturity ELSE @,
                     !.ret = "record_joke"]

(* ---------------- ProactiveMessageManager ---------------- *)
\* __init__; pc is where the start_scheduler coroutine stands, sent and
\* cleared are histories: the messages handed to send_callback, in order,
\* and the messages clear_scheduled_messages dropped
ProactiveMessageManager__init__ ==
    [used |-> TRUE, scheduled_messages |-> <<>>, running |-> FALSE,
     time |-> 0, pc |-> "new", messages_to_send |-> <<>>, i |-> 0,
     sent |-> <<>>, cleared |-> {}, scheduled |-> 0, stop_called |-> FALSE,
     ret |-> "__init__"]

\* the dicts differ in their scheduled_time or message; nth tells them apart
schedule_message(self, delay, session_id) ==
    [self EXCEPT !.scheduled_messages =
                     Append(@, [nth |-> self.scheduled + 1,
                                scheduled_time |-> self.time + delay,
                                session_id |-> session_id]),
                 !.scheduled = @ + 1,
                 !.ret = "schedule_message"]

AllSessions == "*"

\* clear_scheduled_messages(session_id), session_id None being AllSessions
clear_scheduled_messages(self, session_id) ==
    LET kept == IF session_id = AllSessions THEN <<>>
                ELSE SelectSeq(self.scheduled_messages,
                               LAMBDA msg : msg.session_id # session_id)
    IN  [self EXCEPT !.scheduled_messages = kept,
                     !.cleared = @ \cup
                         ({ self.scheduled_messages[k].nth :
                              k \in DOMAIN self.scheduled_messages }
                          \ { kept[k].nth : k \in DOMAIN kept }),
                     !.ret = "clear_scheduled_messages"]

stop_scheduler(self) ==
    [self EXCEPT !.running = FALSE, !.stop_called = TRUE, !.ret = "stop_scheduler"]

\* `while self.running:` up to the next await: the first send_callback of
\* the messages that are due, or asyncio.sleep(1)
scheduler_loop(self) ==
    LET messages_to_send ==
            SelectSeq(self.scheduled_messages,
                      LAMBDA msg_data : msg_data.scheduled_time <= self.time)
    IN  IF ~self.running THEN [self EXCEPT !.pc = "returned"]
        ELSE IF messages_to_send = <<>>
        THEN [self EXCEPT !.pc = "sleep", !.messages_to_send = <<>>, !.i = 0]
        ELSE [self EXCEPT !.pc = "send_callback",
                          !.messages_to_send = messages_to_send, !.i = 1,
                          !.sent = Append(@, messages_to_send[1].nth)]

\* send_callback has returned or raised (caught): remove the message, then
\* the next send_callback or asyncio.sleep(1); list.remove raises ValueError
\* when the message is no longer in the list, which ends the coroutine
after_send_callback(self) ==
    LET msg_data == self.messages_to_send[self.i]
        present == \E k \in DOMAIN self.scheduled_messages :
                       self.scheduled_messages[k] = msg_data
        removed == [self EXCEPT !.scheduled_messages =
                                    SelectSeq(@, LAMBDA m : m # msg_data)]
    IN  IF ~present THEN [self EXCEPT !.pc = "raised"]
        ELSE IF self.i < Len(self.messages_to_send)
        THEN [removed EXCEPT !.i = @ + 1,
                             !.sent = Append(@, self.messages_to_send[self.i + 1].nth)]
        ELSE [removed EXCEPT !.pc = "sleep"]

(* ---------------- AutoProfileUpdater ---------------- *)
UpdateTypes == { "nickname", "signature", "avatar" }

\* __init__ with every update type enabled and no state file, at a time
\* when the epoch lies more than `cooldown` back; calls are the
\* check_and_update coroutines, updates the times _record_update stored
AutoProfileUpdater__init__(cooldown, calls) ==
    [used |-> TRUE, cooldown |-> cooldown, time |-> cooldown,
     state |-> [last_update |-> [t \in UpdateTypes |-> 0],
                current_nickname |-> "", current_signature |-> "",
                emotion_history |-> 0],
     calls |-> [c \in 1..calls |-> [pc |-> "new", value |-> ""]],
     updates |-> [t \in UpdateTypes |-> <<>>],
     ret |-> "__init__"]

_can_update(self, update_type) ==
    ~(self.time - self.state.last_update[update_type] < self.cooldown)

_record_update(self, update_type) ==
    [self EXCEPT !.state.last_update[update_type] = self.time,
                 !.updates[update_type] = Append(@, self.time)]

\* check_and_update of call c from `if self.enable_avatar ...` on, up to the
\* next await or the return
avatar_section(self, c) ==
    IF _can_update(self, "avatar")
    THEN [self EXCEPT !.calls[c].pc = "generate_image"]
    ELSE [self EXCEPT !.calls[c].pc = "returned"]

\* ... from `if self.enable_signature ...` on
signature_section(self, c, new) ==
    IF _can_update(self, "signature") /\ new.signature # self.state.current_signature
    THEN [self EXCEPT !.calls[c] = [pc |-> "set_self_longnick", value |-> new.signature]]
    ELSE avatar_section(self, c)

\* ... from `if self.enable_nickname ...` on
nickname_section(self, c, new) ==
    IF _can_update(self, "nickname") /\ new.nickname # self.state.current_nickname
    THEN [self EXCEPT !.calls[c] = [pc |-> "set_qq_profile", value |-> new.nickname]]
    ELSE signature_section(self, c, new)

\* check_and_update from its start to its first await or its return; strong
\* is intensity >= self.threshold, new holds what _generate_nickname and
\* _generate_signature return when they are called
check_and_update(self, c, strong, new) ==
    IF ~strong THEN [self EXCEPT !.calls[c].pc = "returned"]
    ELSE nickname_section(
             [self EXCEPT !.state.emotion_history = IF @ < 10 THEN @ + 1 ELSE 10],
             c, new)

\* the await of call c is over: it raised (caught by the try), returned
\* nothing (generate_image without a URL), or returned
check_and_update_resumes(self, c, outcome, new) ==
    LET pc == self.calls[c].pc
        ended == [self EXCEPT !.calls[c].pc = "returned"]
    IN  IF outcome = "raises" THEN ended
        ELSE IF pc = "set_qq_profile"
        THEN signature_section(
                 _record_update([self EXCEPT !.state.current_nickname =
                                                 self.calls[c].value], "nickname"),
                 c, new)
        ELSE IF pc = "set_self_longnick"
        THEN avatar_section(
                 _record_update([self EXCEPT !.state.current_signature =
                                                 self.calls[c].value], "signature"),
                 c)
        ELSE IF pc = "generate_image"
        THEN (IF outcome = "nothing" THEN ended
              ELSE [self EXCEPT !.calls[c].pc = "set_qq_avatar"])
        ELSE _record_update(ended, "avatar")

(***************************************************************************)
(* Inputs and bounds.                                                      *)
(***************************************************************************)
MaxClues == 4       \* longest context_clues list
MaxRecords == 2     \* conversations recorded in one run
MaxDay == 111       \* last day of the clock
MaxMarks == 1       \* mark_trivial_memory calls in one run
MaxLimit == 2       \* largest `limit` of a query
MaxPubDay == 2      \* last day of the publishing clock
MaxCalls == 1       \* do_task calls in one run
MaxCronPeriods == 3 \* cron periods on the task's clock
MaxReinforcements == 1  \* reinforce_memory calls in one run
MaxPolls == 32          \* status queries counted in the draw tool's loop
MaxHour == 56           \* last hour of the surprise clock
MaxHabitDay == 12       \* last day of the habit clock
MaxSurprises == 4       \* record_surprise calls in one run of the surprise clock
MaxHabitSurprises == 1  \* record_surprise calls in one run of the habit clock
MaxJokes == 12          \* record_joke calls counted by jokes_told
MaxWords == 104         \* size of learned_words
MaxOverlapCalls == 2    \* do_task calls in one run with overlapping publishes
MaxInFlight == 2        \* _publish_post coroutines suspended at the same time
MaxMessages == 3        \* schedule_message calls in one run
MaxPmTime == 3          \* last second of the proactive scheduler's clock
ProfileCooldown == 2    \* the `cooldown` the updater is constructed with
MaxProfileCalls == 2    \* check_and_update calls in one run
MaxProfileTime == 5     \* last second of the profile updater's clock
MaxInteractions == 31   \* interactions of one session in one run
MaxRestarts == 1        \* restarts of the Python process in one run


\* user messages: empty, at and past the 100 and 300 character marks, with
\* and without a keyword, with one indicator three times and with three
\* distinct indicators
UserTexts ==
    { Text(p, t) : p \in {0, 100, 101, 300, 301},
                   t \in { <<>>, <<"chengnuo">>, <<"!", "!", "!">>,
                           <<"!", "?">>, <<"!", "?", "hen", "...">> } }
    \cup { Text(345, <<"chengnuo", "!", "!", "!">>),
           Text(345, <<"chengnuo", "!", "?", "hen">>) }

BotTexts ==
    { Text(p, t) : p \in {0, 200, 201}, t \in { <<>>, <<"ganxie">>, <<"VIP">> } }

RECURSIVE SeqsUpTo(_, _)
SeqsUpTo(S, n) ==
    IF n = 0 THEN { <<>> }
    ELSE LET shorter == SeqsUpTo(S, n - 1)
         IN  shorter \cup { Append(q, x) : q \in shorter, x \in S }

\* clue lists: a clue the texts above can contain and one they cannot
ClueLists == SeqsUpTo({"vip", "nomatch"}, MaxClues)

ScoreInputs ==
    { [conversation |-> [user_message |-> um, bot_response |-> br],
       context_clues |-> cl] :
        um \in UserTexts, br \in BotTexts, cl \in ClueLists }

NotScored == [done |-> FALSE]

(* ---------------- the scorer on its own ---------------- *)
MemIdle ==
    /\ now = 0
    /\ nextSeq = 0
    /\ store = <<>>
    /\ archive = <<>>
    /\ reinf = [core_memories |-> <<>>, important_memories |-> <<>>,
                reinforcement_log |-> <<>>, last_review |-> 0]
    /\ ret = [op |-> "init"]
    /\ marked = {}
    /\ nMarks = 0
    /\ jsonl = <<>>
    /\ written = <<>>
    /\ sweeping = [reading |-> FALSE]

\* an instance that is not running
PubIdle ==
    /\ ap = [publish_times_per_day |-> 0, publish_time_ranges |-> <<>>,
             today_publish_count |-> 0, last_publish_date |-> NoDate,
             jobs |-> {}, periodic |-> {}, next_check |-> [day |-> 0, minute |-> 0]]
    /\ ap_now = [day |-> 0, minute |-> 0]
    /\ ap_due = {}
    /\ ap_ret = [op |-> "init"]
    /\ nCalls = 0
    /\ ap_failed = FALSE

ScoreIdle ==
    /\ sc_in = [conversation |-> [user_message |-> EmptyText,
                                  bot_response |-> EmptyText],
                context_clues |-> <<>>]
    /\ sc_out = NotScored

Score ==
    /\ ~sc_out.done
    /\ sc_out' = [done |-> TRUE,
                  v |-> calculate_memory_importance(sc_in.conversation,
                                                    sc_in.context_clues)]
    /\ UNCHANGED << sc_in, memVars, pubVars, ct, partVars >>

InitScore ==
    /\ sc_in \in ScoreInputs
    /\ sc_out = NotScored
    /\ MemIdle
    /\ PubIdle
    /\ ct = NoCronTask
    /\ PartsIdle

NextScore == Score

(* ---------------- the memory manager ---------------- *)
Users == {"u1", "u2"}

\* record_weighted_conversation calls: (user, turn) with importance_score=None
\* (a turn of 0.5+0.2+0.1 and one of 0.5+0.15+0.15 that holds a quote and a
\* newline), and (user, score) with a caller's importance_score, in and out
\* of [0,1]
ScoredCalls ==
    { [user_id |-> "u2", user_message |-> Text(301, <<>>),
       bot_response |-> Text(201, <<>>), context_clues |-> <<>>],
      [user_id |-> "u1",
       user_message |-> Text(20, <<"chengnuo", "!", "?", "hen", "\"", "\n">>),
       bot_response |-> EmptyText, context_clues |-> <<>>] }

SuppliedCalls ==
    { [user_id |-> "u1", importance_score |-> F0_3],
      [user_id |-> "u2", importance_score |-> FRatio(0 - 1, 2)],
      [user_id |-> "u2", importance_score |-> FRatio(3, 2)] }

Thresholds == {30, 37}
DaySteps == {37}
QueryUsers == {NoValue, "u1"}
QueryThresholds == { F0_7, F0_3 }
NoSuchId == [day |-> 0 - 1, seq |-> 0 - 1]

StoreTimestamps == { store[i].timestamp : i \in 1..Len(store) }

RecordScored ==
    \E c \in ScoredCalls :
        /\ nextSeq < MaxRecords
        /\ record_weighted_conversation(c.user_id, c.user_message,
               c.bot_response, NotGiven, c.context_clues, c.user_id)

RecordSupplied ==
    \E c \in SuppliedCalls :
        /\ nextSeq < MaxRecords
        /\ record_weighted_conversation(c.user_id, Text(20, <<>>), EmptyText,
               Given(c.importance_score), <<>>, c.user_id)

Decay == \E days_threshold \in Thresholds : apply_memory_decay(days_threshold)

MarkTrivial ==
    \E memory_id \in StoreTimestamps \cup {NoSuchId} :
        /\ nMarks < MaxMarks
        /\ nMarks' = nMarks + 1
        /\ mark_trivial_memory(memory_id, "trivial")

Query ==
    \E user_id \in QueryUsers, threshold \in QueryThresholds,
       limit \in 1..MaxLimit :
        get_important_memories(user_id, threshold, limit)

Tick == \E days \in DaySteps : now + days <= MaxDay /\ Advance(days)

InitMem == ScoreIdle /\ MemIdle /\ PubIdle /\ ct = NoCronTask /\ PartsIdle

NextMem ==
    \/ (RecordScored /\ UNCHANGED << partVars, ct, scoreVars, nMarks, pubVars, jsonl, written, sweeping >>)
    \/ (RecordSupplied /\ UNCHANGED << partVars, ct, scoreVars, nMarks, pubVars, jsonl, written, sweeping >>)
    \/ (Decay /\ UNCHANGED << partVars, ct, scoreVars, nMarks, pubVars, jsonl, written, sweeping >>)
    \/ (MarkTrivial /\ UNCHANGED << partVars, ct, scoreVars, pubVars, jsonl, written, sweeping >>)
    \/ (Query /\ UNCHANGED << partVars, ct, scoreVars, nMarks, pubVars, jsonl, written, sweeping >>)
    \/ (Tick /\ UNCHANGED << partVars, ct, scoreVars, nMarks, pubVars, jsonl, written, sweeping >>)

DecayRaises ==
    \E days_threshold \in Thresholds, point \in {"read", "rewrite", "archive"},
       n \in 0..MaxRecords :
        apply_memory_decay_raises(days_threshold, point, n)

RecordRaises ==
    \E c \in ScoredCalls, point \in {"append", "promote_read", "promote_write"} :
        /\ nextSeq < MaxRecords
        /\ record_weighted_conversation_raises(c.user_id, c.user_message,
               c.bot_response, NotGiven, c.context_clues, c.user_id, point)

\* recording, sweeping and querying through the text of the store file
TextRecord ==
    /\ nextSeq < MaxRecords
    /\ \/ \E c \in ScoredCalls :
             record_weighted_conversation_text(c.user_id, c.user_message,
                 c.bot_response, NotGiven, c.context_clues, c.user_id)
       \/ \E c \in SuppliedCalls :
             record_weighted_conversation_text(c.user_id, Text(20, <<>>),
                 EmptyText, Given(c.importance_score), <<>>, NoValue)

NextText ==
    \/ (TextRecord /\ UNCHANGED << partVars, ct, scoreVars, nMarks, pubVars, sweeping >>)
    \/ ((\E days_threshold \in Thresholds : apply_memory_decay_text(days_threshold))
           /\ UNCHANGED << partVars, ct, scoreVars, nMarks, pubVars, sweeping >>)
    \/ ((\E threshold \in QueryThresholds :
             get_important_memories_text(NoValue, threshold, MaxLimit))
           /\ UNCHANGED << partVars, ct, scoreVars, nMarks, pubVars, sweeping >>)
    \/ (Tick /\ UNCHANGED << partVars, ct, scoreVars, nMarks, pubVars, jsonl, written, sweeping >>)

\* reinforce_memory on a record of the store or on an id that names none
ReinforcementTypes ==
    { "manual_recall", "context_trigger", "anniversary", "milestone",
      "passive_recall", "spontaneous" }

Reinforce ==
    /\ Len(reinf.reinforcement_log) < MaxReinforcements
    /\ \E memory_id \in StoreTimestamps \cup {NoSuchId},
          reinforcement_type \in ReinforcementTypes :
            reinforce_memory(memory_id, reinforcement_type)

NextReinforce ==
    \/ (RecordSupplied /\ UNCHANGED << partVars, ct, scoreVars, nMarks, pubVars, jsonl, written, sweeping >>)
    \/ (Reinforce /\ UNCHANGED << partVars, ct, scoreVars, nMarks, pubVars, jsonl, written, sweeping >>)
    \/ (Decay /\ UNCHANGED << partVars, ct, scoreVars, nMarks, pubVars, jsonl, written, sweeping >>)
    \/ (Tick /\ UNCHANGED << partVars, ct, scoreVars, nMarks, pubVars, jsonl, written, sweeping >>)

\* recording and sweeping on a file system whose calls can fail
NextMemIO ==
    \/ (RecordScored /\ UNCHANGED << partVars, ct, scoreVars, nMarks, pubVars, jsonl, written, sweeping >>)
    \/ (RecordRaises /\ UNCHANGED << partVars, ct, scoreVars, nMarks, pubVars, jsonl, written, sweeping >>)
    \/ (RecordSupplied /\ UNCHANGED << partVars, ct, scoreVars, nMarks, pubVars, jsonl, written, sweeping >>)
    \/ (Decay /\ UNCHANGED << partVars, ct, scoreVars, nMarks, pubVars, jsonl, written, sweeping >>)
    \/ (DecayRaises /\ UNCHANGED << partVars, ct, scoreVars, nMarks, pubVars, jsonl, written, sweeping >>)
    \/ (Tick /\ UNCHANGED << partVars, ct, scoreVars, nMarks, pubVars, jsonl, written, sweeping >>)

(* ---------------- the memory manager on the event loop ---------------- *)
\* The memory part of _record_interaction_async, a plain function the event
\* handler calls: it records the message and, when hash(session_id) is a
\* multiple of 30 (hash_hit), calls apply_memory_decay(30), here up to the
\* end of its read.  The loop starts a callback only when none is running
\* or the running one is suspended at an await.
_record_interaction_async ==
    /\ (~sweeping.reading \/ DecayAwaitsAfterRead)
    /\ nextSeq < MaxRecords
    /\ \E c \in ScoredCalls, hash_hit \in BOOLEAN :
        LET context_clues ==
                IF \E k \in DOMAIN c.user_message.toks :
                       c.user_message.toks[k] \in {"jide", "qiuni"}
                THEN << "xuyaojilu" >> ELSE <<>>
        IN  /\ record_weighted_conversation(c.user_id, c.user_message,
                   EmptyText, NotGiven, context_clues, c.user_id)
            /\ sweeping' = IF hash_hit /\ ~sweeping.reading
                           THEN [reading |-> TRUE, conversations |-> store',
                                 days_threshold |-> 30]
                           ELSE sweeping

NextLoop ==
    \/ (_record_interaction_async /\ UNCHANGED << partVars, ct, scoreVars, nMarks, pubVars, jsonl, written >>)
    \/ (apply_memory_decay_rewrite /\ UNCHANGED << partVars, ct, scoreVars, nMarks, pubVars, jsonl, written >>)
    \/ (~sweeping.reading /\ Tick /\ UNCHANGED << partVars, ct, scoreVars, nMarks, pubVars, jsonl, written, sweeping >>)

(* ---------------- the publisher and its clock ---------------- *)
HourRange(s, e) == [fmt |-> "hours", start_hour |-> s, end_hour |-> e]
ClockRange(sh, sm, eh, em) ==
    [fmt |-> "clock", start_hour |-> sh, start_minute |-> sm,
     end_hour |-> eh, end_minute |-> em]

\* the default configuration, two and three posts in two windows, three
\* posts in one twenty-minute window, and a window across midnight
Configs ==
    { [publish_times_per_day |-> 1,
       publish_time_ranges |-> << HourRange(9, 12), HourRange(14, 18), HourRange(19, 22) >>],
      [publish_times_per_day |-> 2,
       publish_time_ranges |-> << HourRange(9, 12), HourRange(14, 18) >>],
      [publish_times_per_day |-> 3,
       publish_time_ranges |-> << HourRange(9, 12), HourRange(14, 18) >>],
      [publish_times_per_day |-> 3,
       publish_time_ranges |-> << ClockRange(20, 0, 20, 20) >>],
      [publish_times_per_day |-> 1,
       publish_time_ranges |-> << ClockRange(23, 30, 1, 30) >>] }

\* construction before the windows, inside the first one and late at night
StartMinutes == { 8 * 60, 10 * 60 + 30, 23 * 60 + 15 }

InitPublish ==
    /\ ScoreIdle
    /\ MemIdle
    /\ ct = NoCronTask
    /\ PartsIdle
    /\ ap_now \in { [day |-> 0, minute |-> m] : m \in StartMinutes }
    /\ \E config \in Configs :
        \E draws \in DrawSeqs(config) :
            /\ ap = AutoPublish__init__(config, ap_now, draws)
            /\ ap_ret = [op |-> "__init__", draws |-> draws,
                         raised |-> PlanSlots(config, ap_now, draws, 0).raised]
    /\ ap_due = {}
    /\ nCalls = 0
    /\ ap_failed = FALSE

\* the instants at which the scheduler has something to run, and midnight
NextInstants ==
    { AddMinutes([day |-> ap_now.day, minute |-> 0], MinutesPerDay) }
    \cup { j.run_date : j \in ap.jobs }
    \cup (IF "insomnia_checker" \in ap.periodic THEN {ap.next_check} ELSE {})

\* time passes until the next of these instants; the triggers that fire then
Elapse ==
    /\ ap_due = {}
    /\ \A j \in ap.jobs : j.run_date # ap_now
    /\ \E t \in NextInstants :
        /\ \A u \in NextInstants : ~TimeLess(u, t)
        /\ t.day <= MaxPubDay
        /\ ap_now' = t
        /\ ap_due' =
              (IF t.minute = 0 THEN {"daily_reset_scheduler"} \cap ap.periodic ELSE {})
              \cup (IF t = ap.next_check THEN {"insomnia_checker"} \cap ap.periodic
                    ELSE {})
        /\ ap' = IF t = ap.next_check /\ "insomnia_checker" \in ap.periodic
                 THEN [ap EXCEPT !.next_check = AddMinutes(t, 30)] ELSE ap
    /\ ap_ret' = [op |-> "elapse"]
    /\ UNCHANGED << nCalls, ap_failed >>

\* the 00:00 cron job runs _reset_and_schedule_today
RunDailyReset ==
    /\ "daily_reset_scheduler" \in ap_due
    /\ \E draws \in DrawSeqs(ap) :
          ap' = _reset_and_schedule_today(ap, ap_now, draws)
    /\ ap_due' = ap_due \ {"daily_reset_scheduler"}
    /\ ap_ret' = [op |-> "reset", day |-> ap_now.day]
    /\ UNCHANGED << ap_now, nCalls, ap_failed >>

\* what _publish_post reports: the post passed the limit check, and
\* publish_feed raised (caught and logged)
PublishRet(insomnia, passed, ok) ==
    [op |-> "publish", insomnia |-> insomnia, passed |-> passed,
     failed |-> passed /\ ~ok]

\* a one-shot job runs _publish_post()
RunPublishJob ==
    /\ \E j \in ap.jobs, ok \in BOOLEAN :
        /\ j.run_date = ap_now
        /\ \E r \in {_publish_post([ap EXCEPT !.jobs = @ \ {j}], ap_now, FALSE)} :
              /\ ap' = r.self
              /\ ap_ret' = PublishRet(FALSE, r.passed, ok)
              /\ ap_failed' = (ap_failed \/ (r.passed /\ ~ok))
    /\ UNCHANGED << ap_now, ap_due, nCalls >>

\* the interval job runs _check_insomnia; triggered is
\* random.random() <= insomnia_probability
_check_insomnia ==
    /\ "insomnia_checker" \in ap_due
    /\ ap_due' = ap_due \ {"insomnia_checker"}
    /\ \E triggered \in BOOLEAN, ok \in BOOLEAN :
        IF ~(HourOf(ap_now) >= 23 \/ HourOf(ap_now) < 2) \/ ~triggered
        THEN /\ ap' = ap
             /\ ap_ret' = [op |-> "insomnia", triggered |-> FALSE]
             /\ UNCHANGED ap_failed
        ELSE \E r \in {_publish_post(ap, ap_now, TRUE)} :
                /\ ap' = r.self
                /\ ap_ret' = PublishRet(TRUE, r.passed, ok)
                /\ ap_failed' = (ap_failed \/ ~ok)
    /\ UNCHANGED << ap_now, nCalls >>

\* AutoPublish.do_task
AutoPublish_do_task ==
    /\ nCalls < MaxCalls
    /\ nCalls' = nCalls + 1
    /\ \E ok \in BOOLEAN :
        \E r \in {_publish_post(ap, ap_now, FALSE)} :
            /\ ap' = r.self
            /\ ap_ret' = PublishRet(FALSE, r.passed, ok)
            /\ ap_failed' = (ap_failed \/ (r.passed /\ ~ok))
    /\ UNCHANGED << ap_now, ap_due >>

\* AutoPublish.terminate: scheduler.remove_all_jobs()
AutoPublish_terminate ==
    /\ ap.periodic # {}
    /\ ap' = [ap EXCEPT !.jobs = {}, !.periodic = {}]
    /\ ap_due' = {}
    /\ ap_ret' = [op |-> "terminate"]
    /\ UNCHANGED << ap_now, nCalls, ap_failed >>

NextPublish ==
    \/ (Elapse /\ UNCHANGED << partVars, ct, scoreVars, memVars >>)
    \/ (RunDailyReset /\ UNCHANGED << partVars, ct, scoreVars, memVars >>)
    \/ (RunPublishJob /\ UNCHANGED << partVars, ct, scoreVars, memVars >>)
    \/ (_check_insomnia /\ UNCHANGED << partVars, ct, scoreVars, memVars >>)
    \/ (AutoPublish_do_task /\ UNCHANGED << partVars, ct, scoreVars, memVars >>)
    \/ (AutoPublish_terminate /\ UNCHANGED << partVars, ct, scoreVars, memVars >>)

(* ---------------- the cron task and its clock ---------------- *)
\* construction just after a boundary and in the middle of a period
InitCron ==
    /\ ScoreIdle
    /\ MemIdle
    /\ PubIdle
    /\ PartsIdle
    /\ \E tnow \in {1, CronPeriod}, cron_ok \in BOOLEAN :
          ct = AutoRandomCronTask__init__(tnow, cron_ok)

\* time passes until the next instant at which the scheduler has a job to run
CronElapse ==
    /\ ct.adding = {}
    /\ \E t \in ct.jobs \cup (IF ct.registered THEN {ct.next_fire} ELSE {}) :
          /\ \A u \in ct.jobs : t <= u
          /\ ct.registered => t <= ct.next_fire
          /\ t > ct.now
          /\ t <= MaxCronPeriods * 2 * CronPeriod
          /\ ct' = [ct EXCEPT !.now = t, !.ret = [op |-> "elapse"]]

\* the cron job fires: schedule_random_job starts in a pool thread, reads
\* the clock on the boundary or a half second after it, and draws the run date
CronFire ==
    /\ ct.registered
    /\ ct.next_fire = ct.now
    /\ \E lag \in {0, 1} :
          \E target_time \in schedule_random_job(ct.now + lag) :
              ct' = [ct EXCEPT !.next_fire = @ + 2 * CronPeriod,
                               !.adding = @ \cup {target_time},
                               !.ret = [op |-> "schedule", at |-> ct.now + lag,
                                        target_time |-> target_time]]

\* the thread of schedule_random_job calls scheduler.add_job
CronAddJob ==
    \E target_time \in ct.adding :
        ct' = [ct EXCEPT !.adding = @ \ {target_time},
                         !.jobs = @ \cup {target_time},
                         !.ret = [op |-> "add_job", target_time |-> target_time]]

\* a one-shot job runs _run_task_wrapper; do_task returns or raises, and the
\* executor logs what it raises
_run_task_wrapper ==
    \E run_date \in ct.jobs, raised \in BOOLEAN :
        /\ run_date <= ct.now
        /\ ct' = [ct EXCEPT !.jobs = @ \ {run_date},
                            !.runs = Append(@, ct.now),
                            !.ret = [op |-> "run", run_date |-> run_date,
                                     raised |-> raised]]

\* AutoRandomCronTask.terminate: scheduler.remove_all_jobs()
AutoRandomCronTask_terminate ==
    /\ ~ct.terminated
    /\ ct' = [ct EXCEPT !.registered = FALSE, !.jobs = {}, !.terminated = TRUE,
                        !.ret = [op |-> "terminate"]]

NextCron ==
    \/ (CronElapse /\ UNCHANGED << partVars, scoreVars, memVars, pubVars >>)
    \/ (CronFire /\ UNCHANGED << partVars, scoreVars, memVars, pubVars >>)
    \/ (CronAddJob /\ UNCHANGED << partVars, scoreVars, memVars, pubVars >>)
    \/ (_run_task_wrapper /\ UNCHANGED << partVars, scoreVars, memVars, pubVars >>)
    \/ (AutoRandomCronTask_terminate /\ UNCHANGED << partVars, scoreVars, memVars, pubVars >>)

(* ---------------- the task-polling loops ---------------- *)
\* everything outside Part 6 at rest
MainIdle == ScoreIdle /\ MemIdle /\ PubIdle /\ ct = NoCronTask
mainVars == << scoreVars, memVars, pubVars, ct >>

InitPoll ==
    /\ MainIdle
    /\ poll = PollStart
    /\ dpoll = Unused /\ hb = Unused /\ ee = Unused /\ fl = Unused
    /\ pm = Unused /\ pu = Unused /\ ix = Unused

NextPoll ==
    \/ (PollQuery /\ UNCHANGED << mainVars, dpoll, hb, ee, fl, pm, pu, ix >>)
    \/ (PollSleep /\ UNCHANGED << mainVars, dpoll, hb, ee, fl, pm, pu, ix >>)

InitDrawPoll ==
    /\ MainIdle
    /\ dpoll = DrawPollStart
    /\ poll = Unused /\ hb = Unused /\ ee = Unused /\ fl = Unused
    /\ pm = Unused /\ pu = Unused /\ ix = Unused

NextDrawPoll ==
    \/ (DrawPollQuery(MaxPolls) /\ UNCHANGED << mainVars, poll, hb, ee, fl, pm, pu, ix >>)
    \/ (DrawPollSleep(MaxPolls) /\ UNCHANGED << mainVars, poll, hb, ee, fl, pm, pu, ix >>)

(* ---------------- HabitBalanceSystem and its clocks ---------------- *)
NewHabits == { "n1", "n2", "n3", "n4" }

\* a fresh system, and systems that load a saved phase
InitHabit ==
    /\ MainIdle
    /\ \E loaded \in { [change_phase |-> "stable", days_in_phase |-> 0],
                        [change_phase |-> "stable", days_in_phase |-> 12],
                        [change_phase |-> "changing", days_in_phase |-> 6] } :
          hb = HabitBalanceSystem__init__(HoursPerDay, loaded.change_phase,
                                          loaded.days_in_phase)
    /\ poll = Unused /\ dpoll = Unused /\ ee = Unused /\ fl = Unused
    /\ pm = Unused /\ pu = Unused /\ ix = Unused

HabitDailyCheck ==
    \E new_habit \in NewHabits :
        hb' = [daily_check(hb, new_habit) EXCEPT !.ret = "daily_check"]

HabitShouldTrigger ==
    \E lucky \in BOOLEAN : hb' = should_trigger_surprise(hb, lucky)

\* record_surprise, called as the test calls it: after a True
HabitRecordSurprise(MaxRecorded) ==
    /\ hb.armed
    /\ Len(hb.surprises) < MaxRecorded
    /\ hb' = record_surprise(hb)

HabitHours ==
    \E h \in {5, 6, 13} :
        /\ hb.time + h <= MaxHour
        /\ hb' = [hb EXCEPT !.time = @ + h, !.ret = "time"]

HabitDays ==
    \E d \in {1, 7} :
        /\ DateOf(hb.time) + d <= MaxHabitDay
        /\ hb' = [hb EXCEPT !.time = @ + d * HoursPerDay, !.ret = "time"]

NextSurprise ==
    \/ (HabitShouldTrigger /\ UNCHANGED << mainVars, poll, dpoll, ee, fl, pm, pu, ix >>)
    \/ (HabitRecordSurprise(MaxSurprises) /\ UNCHANGED << mainVars, poll, dpoll, ee, fl, pm, pu, ix >>)
    \/ (HabitDailyCheck /\ UNCHANGED << mainVars, poll, dpoll, ee, fl, pm, pu, ix >>)
    \/ (HabitHours /\ UNCHANGED << mainVars, poll, dpoll, ee, fl, pm, pu, ix >>)

NextHabit ==
    \/ (HabitDailyCheck /\ UNCHANGED << mainVars, poll, dpoll, ee, fl, pm, pu, ix >>)
    \/ (HabitShouldTrigger /\ UNCHANGED << mainVars, poll, dpoll, ee, fl, pm, pu, ix >>)
    \/ (HabitRecordSurprise(MaxHabitSurprises) /\ UNCHANGED << mainVars, poll, dpoll, ee, fl, pm, pu, ix >>)
    \/ (HabitDays /\ UNCHANGED << mainVars, poll, dpoll, ee, fl, pm, pu, ix >>)

(* ---------------- ExpressionEvolution's callers ---------------- *)
\* a fresh system, and one that loads what _save_state wrote after nine
\* successful jokes and 95 learned words
InitExpression ==
    /\ MainIdle
    /\ \E saved \in { NoSavedExpression,
                       [NoSavedExpression EXCEPT
                           !.learned_words = { [w |-> i, len |-> 3] : i \in 1..95 },
                           !.jokes_told = 9, !.jokes_successful = 9] } :
          ee = ExpressionEvolution__init__(saved)
    /\ poll = Unused /\ dpoll = Unused /\ hb = Unused /\ fl = Unused
    /\ pm = Unused /\ pu = Unused /\ ix = Unused

\* a str (its characters), a list of six words not seen before, and a list
\* holding a two-letter word, a known word and one new word
Contents(self) ==
    LET k == Cardinality(self.learned_words)
    IN  { CharsOf(4),
          [i \in 1..6 |-> [w |-> k + i, len |-> 3]],
          << [w |-> 0, len |-> 2], [w |-> 1, len |-> 3],
             [w |-> k + 1, len |-> 3] >> }

LearnFromContent ==
    /\ Cardinality(ee.learned_words) < MaxWords
    /\ \E content \in Contents(ee) : ee' = learn_from_content(ee, content)

RecordJoke ==
    /\ ee.jokes_told < MaxJokes
    /\ \E success \in BOOLEAN : ee' = record_joke(ee, success)

NextExpression ==
    \/ (LearnFromContent /\ UNCHANGED << mainVars, poll, dpoll, hb, fl, pm, pu, ix >>)
    \/ (RecordJoke /\ UNCHANGED << mainVars, poll, dpoll, hb, fl, pm, pu, ix >>)

(* ---------------- overlapping _publish_post coroutines ---------------- *)
\* the awaits of _publish_post at which a coroutine can be suspended
PublishAwaits ==
    { [insomnia |-> FALSE, at |-> "publish_feed"],
      [insomnia |-> TRUE, at |-> "generate_diary"],
      [insomnia |-> TRUE, at |-> "publish_feed"] }

\* two posts a day in two windows, and one post a day in the default windows
OverlapConfigs ==
    { c \in Configs : /\ c.publish_times_per_day \in {1, 2}
                      /\ c.publish_time_ranges[1] = HourRange(9, 12) }

\* fl.awaiting counts the suspended coroutines at each await; fl.passes
\* counts, per calendar day, the regular posts let through by the limit check
InitOverlap ==
    /\ ScoreIdle /\ MemIdle /\ ct = NoCronTask
    /\ poll = Unused /\ dpoll = Unused /\ hb = Unused /\ ee = Unused
    /\ pm = Unused /\ pu = Unused /\ ix = Unused
    /\ ap_now \in { [day |-> 0, minute |-> m] : m \in {8 * 60, 23 * 60 + 15} }
    /\ \E config \in OverlapConfigs :
        \E draws \in DrawSeqs(config) :
            /\ ap = AutoPublish__init__(config, ap_now, draws)
            /\ ap_ret = [op |-> "__init__", draws |-> draws,
                         raised |-> PlanSlots(config, ap_now, draws, 0).raised]
    /\ ap_due = {}
    /\ nCalls = 0
    /\ ap_failed = FALSE
    /\ fl = [used |-> TRUE,
             awaiting |-> [a \in PublishAwaits |-> 0],
             passes |-> [d \in 0..MaxPubDay |-> 0]]

InFlight ==
    fl.awaiting[[insomnia |-> FALSE, at |-> "publish_feed"]]
    + fl.awaiting[[insomnia |-> TRUE, at |-> "generate_diary"]]
    + fl.awaiting[[insomnia |-> TRUE, at |-> "publish_feed"]]

\* _publish_post from its start to its first await, or to its early return
PublishStarts(self, insomnia) ==
    \E r \in {_publish_post(self, ap_now, insomnia)} :
        /\ r.passed => InFlight < MaxInFlight
        /\ ap' = r.self
        /\ ap_ret' = [op |-> "publish_starts", insomnia |-> insomnia,
                      passed |-> r.passed]
        /\ fl' = IF ~r.passed THEN fl
                 ELSE LET first == [insomnia |-> insomnia,
                                    at |-> IF insomnia THEN "generate_diary"
                                           ELSE "publish_feed"]
                      IN  [fl EXCEPT !.awaiting[first] = @ + 1,
                                     !.passes[ap_now.day] =
                                         IF insomnia THEN @ ELSE @ + 1]

\* an await of a suspended _publish_post returns or raises; the coroutine
\* goes on to its next await or ends (the exception is caught and logged)
PublishResumes ==
    \E a \in PublishAwaits, ok \in BOOLEAN :
        /\ fl.awaiting[a] > 0
        /\ fl' = IF ok /\ a.at = "generate_diary"
                 THEN [fl EXCEPT !.awaiting[a] = @ - 1,
                                 !.awaiting[[a EXCEPT !.at = "publish_feed"]] = @ + 1]
                 ELSE [fl EXCEPT !.awaiting[a] = @ - 1]
        /\ ap_failed' = (ap_failed \/ ~ok)
        /\ ap_ret' = [op |-> "publish_resumes", insomnia |-> a.insomnia,
                      at |-> a.at, ok |-> ok]
        /\ UNCHANGED << ap, ap_now, ap_due, nCalls >>

OverlapPublishJob ==
    /\ \E j \in ap.jobs :
        /\ j.run_date = ap_now
        /\ PublishStarts([ap EXCEPT !.jobs = @ \ {j}], FALSE)
    /\ UNCHANGED << ap_now, ap_due, nCalls, ap_failed >>

Overlap_check_insomnia ==
    /\ "insomnia_checker" \in ap_due
    /\ ap_due' = ap_due \ {"insomnia_checker"}
    /\ \E triggered \in BOOLEAN :
        IF ~(HourOf(ap_now) >= 23 \/ HourOf(ap_now) < 2) \/ ~triggered
        THEN /\ ap' = ap
             /\ ap_ret' = [op |-> "insomnia", triggered |-> FALSE]
             /\ fl' = fl
        ELSE PublishStarts(ap, TRUE)
    /\ UNCHANGED << ap_now, nCalls, ap_failed >>

Overlap_do_task ==
    /\ nCalls < MaxOverlapCalls
    /\ nCalls' = nCalls + 1
    /\ PublishStarts(ap, FALSE)
    /\ UNCHANGED << ap_now, ap_due, ap_failed >>

NextOverlap ==
    \/ (Elapse /\ UNCHANGED << scoreVars, memVars, ct, poll, dpoll, hb, ee, fl, pm, pu, ix >>)
    \/ (RunDailyReset /\ UNCHANGED << scoreVars, memVars, ct, poll, dpoll, hb, ee, fl, pm, pu, ix >>)
    \/ (OverlapPublishJob /\ UNCHANGED << scoreVars, memVars, ct, poll, dpoll, hb, ee, pm, pu, ix >>)
    \/ (Overlap_check_insomnia /\ UNCHANGED << scoreVars, memVars, ct, poll, dpoll, hb, ee, pm, pu, ix >>)
    \/ (Overlap_do_task /\ UNCHANGED << scoreVars, memVars, ct, poll, dpoll, hb, ee, pm, pu, ix >>)
    \/ (PublishResumes /\ UNCHANGED << scoreVars, memVars, ct, poll, dpoll, hb, ee, pm, pu, ix >>)
    \/ (AutoPublish_terminate /\ UNCHANGED << scoreVars, memVars, ct, poll, dpoll, hb, ee, fl, pm, pu, ix >>)

(* ---------------- the proactive scheduler and its callers ---------------- *)
InitProactive ==
    /\ MainIdle
    /\ pm = ProactiveMessageManager__init__
    /\ poll = Unused /\ dpoll = Unused /\ hb = Unused /\ ee = Unused
    /\ fl = Unused /\ pu = Unused /\ ix = Unused

PmSessions == { "s1", "s2" }

\* asyncio.create_task(start_scheduler(...)) starts running
PmStart ==
    /\ pm.pc = "new"
    /\ pm' = [scheduler_loop([pm EXCEPT !.running = TRUE]) EXCEPT !.ret = "start_scheduler"]

PmSchedule ==
    /\ pm.scheduled < MaxMessages
    /\ \E delay \in {0, 2}, session_id \in PmSessions :
          /\ pm.time + delay <= MaxPmTime
          /\ pm' = schedule_message(pm, delay, session_id)

PmClear ==
    \E session_id \in PmSessions \cup {AllSessions} :
        /\ pm.scheduled_messages # <<>>
        /\ pm' = clear_scheduled_messages(pm, session_id)

PmStop ==
    /\ pm.pc # "new"
    /\ ~pm.stop_called
    /\ pm' = stop_scheduler(pm)

\* the awaited send_callback returns, or raises an Exception
PmSendReturns ==
    /\ pm.pc = "send_callback"
    /\ \E ok \in BOOLEAN :
          pm' = [after_send_callback(pm) EXCEPT
                    !.ret = IF ok THEN "send_callback" ELSE "send_callback raised"]

\* asyncio.sleep(1) is over
PmWake ==
    /\ pm.pc = "sleep"
    /\ pm' = [scheduler_loop(pm) EXCEPT !.ret = "sleep"]

PmTick ==
    /\ pm.time < MaxPmTime
    /\ pm' = [pm EXCEPT !.time = @ + 1, !.ret = "time"]

PmLoopStep == PmStart \/ PmSendReturns \/ PmWake

NextProactive ==
    \/ (PmStart /\ UNCHANGED << mainVars, poll, dpoll, hb, ee, fl, pu, ix >>)
    \/ (PmSchedule /\ UNCHANGED << mainVars, poll, dpoll, hb, ee, fl, pu, ix >>)
    \/ (PmClear /\ UNCHANGED << mainVars, poll, dpoll, hb, ee, fl, pu, ix >>)
    \/ (PmStop /\ UNCHANGED << mainVars, poll, dpoll, hb, ee, fl, pu, ix >>)
    \/ (PmSendReturns /\ UNCHANGED << mainVars, poll, dpoll, hb, ee, fl, pu, ix >>)
    \/ (PmWake /\ UNCHANGED << mainVars, poll, dpoll, hb, ee, fl, pu, ix >>)
    \/ (PmTick /\ UNCHANGED << mainVars, poll, dpoll, hb, ee, fl, pu, ix >>)

(* ---------------- the profile updater and its callers ---------------- *)
InitProfile ==
    /\ MainIdle
    /\ pu = AutoProfileUpdater__init__(ProfileCooldown, MaxProfileCalls)
    /\ poll = Unused /\ dpoll = Unused /\ hb = Unused /\ ee = Unused
    /\ fl = Unused /\ pm = Unused /\ ix = Unused

\* what the generators can return: one of two texts each
NewProfiles == [nickname : {"n1", "n2"}, signature : {"s1", "s2"}]

\* a message handler awaits check_and_update
ProfileCall ==
    \E c \in DOMAIN pu.calls, strong \in BOOLEAN, new \in NewProfiles :
        /\ pu.calls[c].pc = "new"
        /\ \A b \in DOMAIN pu.calls : b < c => pu.calls[b].pc # "new"
        /\ pu' = [check_and_update(pu, c, strong, new) EXCEPT !.ret = "check_and_update"]

ProfileResume ==
    \E c \in DOMAIN pu.calls, outcome \in {"returns", "nothing", "raises"},
       new \in NewProfiles :
        /\ pu.calls[c].pc \notin {"new", "returned"}
        /\ outcome = "nothing" => pu.calls[c].pc = "generate_image"
        /\ pu' = [check_and_update_resumes(pu, c, outcome, new) EXCEPT !.ret = outcome]

ProfileTick ==
    /\ pu.time < MaxProfileTime
    /\ pu' = [pu EXCEPT !.time = @ + 1, !.ret = "time"]

NextProfile ==
    \/ (ProfileCall /\ UNCHANGED << mainVars, poll, dpoll, hb, ee, fl, pm, ix >>)
    \/ (ProfileResume /\ UNCHANGED << mainVars, poll, dpoll, hb, ee, fl, pm, ix >>)
    \/ (ProfileTick /\ UNCHANGED << mainVars, poll, dpoll, hb, ee, fl, pm, ix >>)

(* ---------------- the decay trigger of the interaction path ---------------- *)
DecayEvery == 30

Abs(n) == IF n < 0 THEN 0 - n ELSE n

IxSessions == { "s1", "s2" }

\* hash(session_id) of a str is fixed for the life of a Python process and
\* differs from process to process; the values explored
HashValues == { 0 - 60, 0, 7 }

\* `if abs(hash(session_id)) % 30 == 0:`
decay_is_due(hash, session_id) == Abs(hash[session_id]) % DecayEvery = 0

\* ix.decayed[s] tells, for each interaction of session s so far, whether
\* the handler invoked apply_memory_decay
InitInteract ==
    /\ MainIdle
    /\ \E hash \in [IxSessions -> HashValues] :
          ix = [used |-> TRUE, hash |-> hash,
                decayed |-> [s \in IxSessions |-> <<>>],
                restarts |-> 0, ret |-> "init"]
    /\ poll = Unused /\ dpoll = Unused /\ hb = Unused /\ ee = Unused
    /\ fl = Unused /\ pm = Unused /\ pu = Unused

\* the memory-management step of the message handler for one interaction
\* (what it does to the store is the subject of SpecLoop)
Interact ==
    \E session_id \in IxSessions :
        /\ Len(ix.decayed[session_id]) < MaxInteractions
        /\ ix' = [ix EXCEPT !.decayed[session_id] =
                                Append(@, decay_is_due(ix.hash, session_id)),
                            !.ret = session_id]

\* the process is started again: str hashes are salted anew
Restart ==
    /\ ix.restarts < MaxRestarts
    /\ \E hash \in [IxSessions -> HashValues] :
          ix' = [ix EXCEPT !.hash = hash, !.restarts = @ + 1, !.ret = "restart"]

NextInteract ==
    \/ (Interact /\ UNCHANGED << mainVars, poll, dpoll, hb, ee, fl, pm, pu >>)
    \/ (Restart /\ UNCHANGED << mainVars, poll, dpoll, hb, ee, fl, pm, pu >>)

vars == << scoreVars, memVars, pubVars, ct, partVars >>

SpecScore == InitScore /\ [][NextScore]_vars
SpecMem == InitMem /\ [][NextMem]_vars
SpecMemIO == InitMem /\ [][NextMemIO]_vars
SpecText == InitMem /\ [][NextText]_vars
SpecLoop == InitMem /\ [][NextLoop]_vars
SpecReinforce == InitMem /\ [][NextReinforce]_vars
\* every await of the loop returns: the HTTP client answers or raises, and a
\* sleep ends
SpecPoll == InitPoll /\ [][NextPoll]_vars /\ WF_vars(NextPoll)
SpecSurprise == InitHabit /\ [][NextSurprise]_vars
SpecHabit == InitHabit /\ [][NextHabit]_vars
SpecExpression == InitExpression /\ [][NextExpression]_vars
SpecOverlap == InitOverlap /\ [][NextOverlap]_vars
SpecProfile == InitProfile /\ [][NextProfile]_vars
SpecInteract == InitInteract /\ [][NextInteract]_vars
\* the event loop runs the scheduler task whenever its await is over, and
\* time passes
SpecProactive ==
    /\ InitProactive /\ [][NextProactive]_vars
    /\ WF_vars(PmLoopStep /\ UNCHANGED << mainVars, poll, dpoll, hb, ee, fl, pu, ix >>)
    /\ WF_vars(PmTick /\ UNCHANGED << mainVars, poll, dpoll, hb, ee, fl, pu, ix >>)
SpecDrawPoll == InitDrawPoll /\ [][NextDrawPoll]_vars /\ WF_vars(NextDrawPoll)
SpecPublish == InitPublish /\ [][NextPublish]_vars
SpecCron == InitCron /\ [][NextCron]_vars

(***************************************************************************)
(* Claims.                                                                 *)
(***************************************************************************)
(* ---------------- claims about the scorer ---------------- *)
\* the bonuses of a turn in hundredths, by decimal arithmetic
TurnToks(in) ==
    StrLower(in.conversation.user_message).toks \o <<" ">> \o StrLower(in.conversation.bot_response).toks
HasTok(in, tok) == \E i \in DOMAIN TurnToks(in) : TurnToks(in)[i] = tok
Indicators == { emotional_indicators[k] : k \in DOMAIN emotional_indicators }
Keywords == { important_keywords[k] : k \in DOMAIN important_keywords }
LengthCents(in) ==
    IF StrLen(in.conversation.user_message) > 300 THEN 20
    ELSE IF StrLen(in.conversation.user_message) > 100 THEN 10 ELSE 0
KeywordCents(in) == IF \E w \in Keywords : HasTok(in, w) THEN 15 ELSE 0
ClueCents(in) ==
    10 * Cardinality({ i \in DOMAIN in.context_clues :
                          HasTok(in, LowerTok(in.context_clues[i])) })
ResponseCents(in) == IF StrLen(in.conversation.bot_response) > 200 THEN 10 ELSE 0
CappedCents(n) == IF 5 * n < 15 THEN 5 * n ELSE 15
\* indicators of the list that occur in the text
KindsPresent(in) == Cardinality({ w \in Indicators : HasTok(in, w) })
\* occurrences of indicators in the text
Occurrences(in) ==
    Cardinality({ i \in DOMAIN TurnToks(in) : TurnToks(in)[i] \in Indicators })
OtherCents(in) ==
    LengthCents(in) + KeywordCents(in) + ClueCents(in) + ResponseCents(in)
BonusCents(in) == OtherCents(in) + CappedCents(KindsPresent(in))
ClaimedCents(in) == OtherCents(in) + CappedCents(Occurrences(in))

\* v is the decimal score 0.5 + cents/100, clamped to 1, up to rounding
ScoreIs(v, cents) ==
    LET c == IF cents > 50 THEN 100 ELSE 50 + cents
    IN  /\ FLess(FRatio(c * 100 - 1, 10000), v)
        /\ FLess(v, FRatio(c * 100 + 1, 10000))

NoInput(in) ==
    /\ StrLen(in.conversation.user_message) = 0
    /\ StrLen(in.conversation.bot_response) = 0
    /\ in.context_clues = <<>>

\* C5 (as amended): calculate_memory_importance returns a value in [0,1]; it
\* returns exactly 0.5 for an empty message, empty response and no clues,
\* exactly 1.0 whenever the bonuses add up to 0.55 or more, and a value
\* within rounding of 1.0, not always 1.0, when they add up to exactly 0.5.
C5_ScoreInUnitInterval ==
    sc_out.done =>
        /\ FLeq(F0, sc_out.v) /\ FLeq(sc_out.v, F1)
        /\ NoInput(sc_in) => sc_out.v = F0_5
        /\ BonusCents(sc_in) >= 55 => sc_out.v = F1
        /\ BonusCents(sc_in) = 50 => ScoreIs(sc_out.v, 50)

\* a turn whose bonuses add up to exactly 0.5 scored below 1.0
C5_Witness ==
    /\ sc_out.done
    /\ BonusCents(sc_in) = 50
    /\ FLess(sc_out.v, F1)

\* C5 (as stated): the score is in [0,1], exactly 0.5 for the empty turn and
\* exactly 1.0 whenever the bonuses add up to 0.5 or more.
C5_ExactlyOneFromHalf ==
    sc_out.done =>
        /\ FLeq(F0, sc_out.v) /\ FLeq(sc_out.v, F1)
        /\ NoInput(sc_in) => sc_out.v = F0_5
        /\ BonusCents(sc_in) >= 50 => sc_out.v = F1

\* the turn of the scenario: 350 characters, a keyword and three "!"
ScenarioTurn ==
    [conversation |-> [user_message |-> Text(345, <<"chengnuo", "!", "!", "!">>),
                       bot_response |-> EmptyText],
     context_clues |-> <<>>]

\* C6: the emotional bonus is 0.05 times the number of emotional tokens in
\* the text, capped at 0.15, so the score is 0.5 plus the other bonuses plus
\* that, clamped; the scenario turn scores 1.0.
C6_EmotionalBonusCountsTokens ==
    sc_out.done =>
        /\ ScoreIs(sc_out.v, ClaimedCents(sc_in))
        /\ sc_in = ScenarioTurn => sc_out.v = F1

(* ---------------- claims about the memory manager ---------------- *)
StoreIdx == 1..Len(store)
AgeDays(c) == now - c.timestamp.day
CoreIdx == 1..Len(reinf.core_memories)

\* C1: when record_weighted_conversation returns for a turn of importance
\* >= 0.8, core_memories holds an entry with the turn's timestamp, user_id and
\* importance; a turn of importance < 0.8 has no core memory.
C1_PromotedIsInCoreMemories ==
    ret.op = "record" =>
        /\ FLeq(F0_8, ret.importance) =>
              \E i \in CoreIdx :
                  /\ reinf.core_memories[i].timestamp = ret.timestamp
                  /\ reinf.core_memories[i].user_id = ret.user_id
                  /\ reinf.core_memories[i].importance = ret.importance
        /\ FLess(ret.importance, F0_8) =>
              \A i \in CoreIdx :
                  reinf.core_memories[i].timestamp # ret.timestamp

\* a scored turn of exactly 0.8 (0.5 + 0.15 + 0.15) has just been promoted,
\* while an earlier turn of 0.7999999999999999 (0.5 + 0.2 + 0.1) was not
C1_Witness ==
    /\ ret.op = "record"
    /\ ~ret.arg.given
    /\ ret.importance = F0_8
    /\ Len(reinf.core_memories) = 1
    /\ reinf.core_memories[1].timestamp = ret.timestamp
    /\ Len(store) = 2
    /\ FLess(store[1].importance_score, F0_8)
    /\ FLess(FRatio(79, 100), store[1].importance_score)

\* C2: after apply_memory_decay(days_threshold=30) no record left in the store
\* has age_days > 30, importance_score < 0.4 and decay_factor < 0.1.
C2_NoFadedRecordRetained ==
    (ret.op = "decay" /\ ~ret.error /\ ret.days_threshold = 30) =>
        \A i \in StoreIdx :
            ~ /\ AgeDays(store[i]) > 30
              /\ FLess(store[i].importance_score, F0_4)
              /\ FLess(store[i].decay_factor, F0_1)

\* a sweep at threshold 30 archived one record and kept an old, unimportant
\* one with a faded decay factor
C2_Witness ==
    /\ ret.op = "decay" /\ ~ret.error /\ ret.days_threshold = 30
    /\ ret.archived = 1
    /\ \E i \in StoreIdx :
          /\ AgeDays(store[i]) > 30
          /\ FLess(store[i].importance_score, F0_4)
          /\ FLess(store[i].decay_factor, F1)

SameMemory(a, b) == a.timestamp = b.timestamp /\ a.user_id = b.user_id

\* C3: apply_memory_decay never loses a record: after it returns, with a
\* result or with an error result, every record of the store is still in the
\* store or has an entry of its timestamp and user_id in the archive log; on
\* a normal return archived and kept count the records removed and left.
C3_DecayLosesNoRecord ==
    [][ret'.op = "decay" =>
          /\ \A i \in StoreIdx :
                \/ \E j \in 1..Len(store') : SameMemory(store'[j], store[i])
                \/ \E j \in 1..Len(archive') : SameMemory(archive'[j], store[i])
          /\ ~ret'.error =>
                /\ ret'.archived = Len(store) - Len(store')
                /\ ret'.kept = Len(store')
      ]_vars

C8_QueryExcludesTrivialAndLow ==
    ret.op = "query" =>
        \A k \in 1..Len(ret.result) :
            /\ ~DictGet(ret.result[k], "is_trivial", FALSE)
            /\ FLeq(ret.threshold, ret.result[k].importance_score)
            /\ ret.result[k].timestamp \notin marked

\* a query at 0.7 left out a record marked trivial whose importance (0.7) and
\* user still match
C8_Witness ==
    /\ ret.op = "query" /\ ret.threshold = F0_7 /\ ret.user_id = NoValue
    /\ \E i \in StoreIdx :
          /\ DictGet(store[i], "is_trivial", FALSE)
          /\ FLeq(F0_7, store[i].importance_score)
          /\ \A k \in 1..Len(ret.result) :
                ret.result[k].timestamp # store[i].timestamp

\* the order of the claim: a ranks above b when its (importance_score *
\* decay_factor, timestamp) pair is the larger one
RanksAbove(a, b) ==
    LET pa == FMul(a.importance_score, a.decay_factor)
        pb == FMul(b.importance_score, b.decay_factor)
    IN  FLess(pb, pa) \/ (pa = pb /\ TsLess(b.timestamp, a.timestamp))

Wanted(c, q) ==
    /\ FLeq(q.threshold, c.importance_score)
    /\ ~DictGet(c, "is_trivial", FALSE)
    /\ (q.user_id = NoValue \/ c.user_id = q.user_id)

\* C9: get_important_memories(user_id, threshold, limit) returns the first
\* `limit` records of the qualifying set in descending order of
\* (importance_score * decay_factor, timestamp).
C9_QueryIsTopOfRanking ==
    ret.op = "query" =>
        LET res == ret.result
            qualifying == { i \in StoreIdx : Wanted(store[i], ret) }
            returned == { i \in StoreIdx : \E k \in 1..Len(res) : res[k] = store[i] }
        IN  /\ Len(res) = IF Cardinality(qualifying) < ret.limit
                          THEN Cardinality(qualifying) ELSE ret.limit
            /\ returned \subseteq qualifying
            /\ Cardinality(returned) = Len(res)
            /\ \A a, b \in 1..Len(res) : a < b => RanksAbove(res[a], res[b])
            /\ \A i \in qualifying \ returned, k \in 1..Len(res) :
                  RanksAbove(res[k], store[i])

\* two records with the same product qualify and limit 1 returns the newer
\* one, which is the second of the store
C9_Witness ==
    /\ ret.op = "query" /\ ret.limit = 1 /\ Len(ret.result) = 1
    /\ Len(store) = 2
    /\ Wanted(store[1], ret) /\ Wanted(store[2], ret)
    /\ ret.result[1] = store[2]
    /\ FMul(store[1].importance_score, store[1].decay_factor)
           = FMul(store[2].importance_score, store[2].decay_factor)

\* what the sweep must leave alone
PassesThrough(c, days_threshold) ==
    AgeDays(c) <= days_threshold \/ FLeq(F0_4, c.importance_score)

\* C10: apply_memory_decay(days_threshold) leaves every record with
\* age_days <= days_threshold or importance_score >= 0.4 in the store with all
\* its fields unchanged, never archives it, and keeps the relative order of
\* the retained records.
C10_DecayFrame ==
    [][(ret'.op = "decay" /\ ~ret'.error) =>
          /\ \A i \in StoreIdx :
                PassesThrough(store[i], ret'.days_threshold) =>
                    /\ \E j \in 1..Len(store') : store'[j] = store[i]
                    /\ \A j \in (Len(archive) + 1)..Len(archive') :
                          archive'[j].timestamp # store[i].timestamp
          /\ \A i1, i2 \in StoreIdx, j1, j2 \in 1..Len(store') :
                ( /\ i1 < i2
                  /\ store'[j1].timestamp = store[i1].timestamp
                  /\ store'[j2].timestamp = store[i2].timestamp ) => j1 < j2
      ]_vars

\* after a sweep the store holds, in their old order, an old important record
\* untouched and behind it an unimportant one with a faded decay factor
C10_Witness ==
    /\ ret.op = "decay" /\ ~ret.error
    /\ Len(store) = 2
    /\ AgeDays(store[1]) > ret.days_threshold
    /\ FLeq(F0_4, store[1].importance_score)
    /\ store[1].decay_factor = F1
    /\ FLess(store[2].importance_score, F0_4)
    /\ FLess(store[2].decay_factor, F1)
    /\ TsLess(store[1].timestamp, store[2].timestamp)

(* ---------------- claims about the publisher ---------------- *)
\* every instant slot i can draw is later than the current time of day
SlotIsAhead(i) ==
    \A d \in Draws(SlotRange(ap, i)) : d.hour * 60 + d.minute > ap_now.minute

\* C4: every run of the daily reset job sets today_publish_count to 0 and
\* re-plans the new day: each slot whose drawn instant is later than now has
\* a one-shot publish job of that day in its window, on every day after the
\* startup day.
C4_ResetReplansTheDay ==
    ap_ret.op = "reset" =>
        /\ ap.today_publish_count = 0
        /\ \A i \in 0..(ap.publish_times_per_day - 1) :
              SlotIsAhead(i) =>
                  \E j \in ap.jobs :
                      /\ j.slot = i
                      /\ j.run_date.day = ap_now.day
                      /\ \E d \in Draws(SlotRange(ap, i)) :
                            j.run_date.minute = d.hour * 60 + d.minute

(* ---------------- claims about failing file operations ---------------- *)
\* the core memories of a reinforcement document, none if it is malformed
CoreOf(doc) == IF "core_memories" \in DOMAIN doc THEN doc.core_memories ELSE <<>>

RoundTripFields ==
    { "user_id", "session_id", "user_message", "bot_response",
      "message_length", "response_length", "importance_score",
      "review_count", "last_reviewed" }

\* C12: a record get_important_memories returns is one that
\* record_weighted_conversation wrote, with user_id, session_id, user_message,
\* bot_response, message_length, response_length, importance_score,
\* review_count and last_reviewed as written, whatever sweeps it went through
\* in between; its decay_factor is the 1.0 written or one a retaining sweep
\* gave it (from 0.1 up to 1).
C12_RoundTrip ==
    ret.op = "query" =>
        \A k \in 1..Len(ret.result) :
            \E w \in 1..Len(written) :
                /\ written[w].timestamp = ret.result[k].timestamp
                /\ DOMAIN ret.result[k] = DOMAIN written[w]
                /\ \A f \in RoundTripFields : ret.result[k][f] = written[w][f]
                /\ \/ ret.result[k].decay_factor = written[w].decay_factor
                   \/ /\ FLeq(F0_1, ret.result[k].decay_factor)
                      /\ FLeq(ret.result[k].decay_factor, F1)

\* a query returned two records: one a sweep has faded, with session_id None,
\* and one whose message holds a quote and a newline and whose score is 0.8
C12_Witness ==
    /\ ret.op = "query" /\ Len(ret.result) = 2
    /\ \E k \in 1..2 :
          /\ FLess(ret.result[k].decay_factor, F1)
          /\ ret.result[k].session_id = NoValue
    /\ \E k \in 1..2 :
          /\ ret.result[k].importance_score = F0_8
          /\ \E i \in 1..Len(ret.result[k].user_message.toks) :
                ret.result[k].user_message.toks[i] = "\n"

(* ---------------- claims about failing tasks ---------------- *)
\* C14: a publish that raises is caught for that invocation only: the
\* periodic jobs stay registered, and after it the daily reset of the next
\* day again plans that day's posts, a one-shot job for every slot whose
\* window is still ahead.
C14_FailedPublishLeavesTheCycle ==
    [][ /\ (ap_ret'.op = "publish" /\ ap_ret'.failed) =>
              ap'.periodic = ap.periodic
        /\ (ap_failed /\ ap_ret'.op = "reset") =>
              \A i \in 0..(ap.publish_times_per_day - 1) :
                  SlotIsAhead(i) =>
                      \E j \in ap'.jobs :
                          j.slot = i /\ j.run_date.day = ap_now.day
      ]_vars

(* ---------------- claims about the cron task ---------------- *)
\* the cron period an instant lies in, and the first boundary not before it
PeriodOf(t) == t \div (2 * CronPeriod)
BoundaryFrom(t) ==
    CHOOSE b \in { 2 * CronPeriod * k : k \in 0..(MaxCronPeriods + 1) } :
        b >= t /\ b - t < 2 * CronPeriod

\* C13: each firing of the cron boundary schedules exactly one one-shot job,
\* at now + delay for a whole number of seconds 0 <= delay <= the time left
\* until the next boundary, and the cron job stays due one period later; the
\* task runs at most once in a period, not after the boundary that follows
\* its scheduling, and not before the first boundary after registration.
C13_OnceInEveryPeriod ==
    /\ [][ /\ ct'.ret.op = "schedule" =>
                /\ ct'.adding = ct.adding \cup {ct'.ret.target_time}
                /\ ct'.ret.target_time \notin ct.adding \cup ct.jobs
                /\ ct'.jobs = ct.jobs
                /\ (ct'.ret.target_time - ct'.ret.at) % 2 = 0
                /\ ct'.ret.target_time >= ct'.ret.at
                /\ ct'.ret.target_time <= BoundaryFrom(ct'.ret.at)
                /\ ct'.registered
                /\ ct'.next_fire = ct.next_fire + 2 * CronPeriod
           /\ ct'.ret.op = "run" =>
                /\ ct'.ret.run_date = ct.now
                /\ ct.now <= ct.next_fire
         ]_vars
    /\ [](\A i \in 1..Len(ct.runs) :
             /\ ct.runs[i] >= ct.first_fire
             /\ \A j \in 1..Len(ct.runs) :
                   i < j => PeriodOf(ct.runs[i]) < PeriodOf(ct.runs[j]))

\* the task ran at the last half second of one period and again on the
\* boundary that ends it
C13_Witness ==
    /\ Len(ct.runs) = 2
    /\ ct.runs[2] = ct.runs[1] + 1
    /\ ct.runs[2] = BoundaryFrom(ct.runs[2])

\* C19: once terminate has returned no job is pending, neither the cron job
\* nor a one-shot job, and no task invocation starts.
C19_NothingStartsAfterTerminate ==
    /\ [](ct.terminated => (~ct.registered /\ ct.jobs = {}))
    /\ [][ct.terminated => ct'.ret.op # "run"]_vars

(* ---------------- claims about planning the day ---------------- *)
\* the state __init__ leaves, with the draws of its _schedule_today_posts
Planned == ap_ret.op = "__init__"
Slots == 0..(ap.publish_times_per_day - 1)
DrawOf(i) == ap_ret.draws[i + 1]
DrawnMinute(i) == DrawOf(i).hour * 60 + DrawOf(i).minute
DrawnInstant(i) == [day |-> ap_now.day, minute |-> DrawnMinute(i)]
HourWindows ==
    \A k \in DOMAIN ap.publish_time_ranges : ap.publish_time_ranges[k].fmt = "hours"

\* C15: when a day is planned with publish_times_per_day = N and hour-range
\* windows W, slot i draws inside window W[i mod |W|] (start hour <= hour <
\* end hour, minute 0..59); when every drawn instant is after the planning
\* time, exactly N one-shot jobs are scheduled, one per slot at its instant.
C15_SlotsDrawInTheirWindows ==
    (Planned /\ HourWindows) =>
        LET W == ap.publish_time_ranges
            N == ap.publish_times_per_day
        IN  /\ \A i \in Slots :
                  LET w == W[(i % Len(W)) + 1]
                  IN  /\ w.start_hour <= DrawOf(i).hour
                      /\ DrawOf(i).hour < w.end_hour
                      /\ DrawOf(i).minute \in 0..59
            /\ (\A i \in Slots : DrawnMinute(i) > ap_now.minute) =>
                  /\ Cardinality(ap.jobs) = N
                  /\ \A i \in Slots :
                        [slot |-> i, run_date |-> DrawnInstant(i)] \in ap.jobs

\* planning at 08:00 with two posts in the windows 9-12 and 14-18
C15_Witness ==
    /\ Planned
    /\ ap.publish_times_per_day = 2
    /\ ap.publish_time_ranges = << HourRange(9, 12), HourRange(14, 18) >>
    /\ ap_now = [day |-> 0, minute |-> 8 * 60]
    /\ Cardinality(ap.jobs) = 2

\* a "HH:MM-HH:MM" window whose end is not after its start
Wraps(w) ==
    /\ w.fmt = "clock"
    /\ w.end_hour * 60 + w.end_minute <= w.start_hour * 60 + w.start_minute

\* C16: for a window that wraps around midnight, every instant the planning
\* can draw is a time of day (hour 0..23, minute 0..59) in [start, 24:00) or
\* in [00:00, end], and the planning completes without raising.
C16_WrapAroundDrawsAreTimesOfDay ==
    Planned =>
        /\ \A i \in Slots :
              LET w == ap.publish_time_ranges[(i % Len(ap.publish_time_ranges)) + 1]
              IN  Wraps(w) =>
                    /\ DrawOf(i).hour \in 0..23
                    /\ DrawOf(i).minute \in 0..59
                    /\ \/ DrawnMinute(i) >= w.start_hour * 60 + w.start_minute
                       \/ DrawnMinute(i) <= w.end_hour * 60 + w.end_minute
        /\ ~ap_ret.raised

\* C17: no one-shot publish job is scheduled at or before the planning time:
\* a slot whose drawn instant has passed gets no job that day; it is not
\* drawn again and not moved to a later time or day.
C17_PassedSlotsGetNoJob ==
    /\ [](Planned =>
            /\ \A j \in ap.jobs : TimeLess(ap_now, j.run_date)
            /\ \A i \in Slots :
                  DrawnMinute(i) <= ap_now.minute =>
                      ~\E j \in ap.jobs : j.slot = i)
    /\ [][\A j \in ap'.jobs \ ap.jobs :
              /\ ap_ret'.op = "reset"
              /\ j.run_date.day = ap_now'.day
              /\ TimeLess(ap_now', j.run_date)]_vars

\* planning at 10:30: the first slot drew 09:59, the second has its job
C17_Witness ==
    /\ Planned
    /\ ap_now = [day |-> 0, minute |-> 10 * 60 + 30]
    /\ DrawOf(0) = [hour |-> 9, minute |-> 59]
    /\ { j.slot : j \in ap.jobs } = {1}

(* ---------------- claims about the insomnia check ---------------- *)
\* a step in which _check_insomnia published
InsomniaPost == ap_ret'.op = "publish" /\ ap_ret'.insomnia

\* the regular posts the limit check would still let through at tnow
Allowed(self, tnow) ==
    LET count == IF self.last_publish_date = tnow.day
                 THEN self.today_publish_count ELSE 0
    IN  IF count >= self.publish_times_per_day THEN 0
        ELSE self.publish_times_per_day - count

\* C18 as stated: the insomnia check publishes only when the hour is >= 23
\* or < 2; its post is carried out even when today_publish_count has reached
\* publish_times_per_day, and it leaves today_publish_count unchanged.
C18_InsomniaLeavesCountUnchanged ==
    [][InsomniaPost =>
          /\ (HourOf(ap_now) >= 23 \/ HourOf(ap_now) < 2)
          /\ ap_ret'.passed
          /\ ap'.today_publish_count = ap.today_publish_count]_vars

\* C18, amended: the insomnia check publishes only when the hour is >= 23 or
\* < 2; its post is carried out even when today_publish_count has reached
\* publish_times_per_day; it leaves today_publish_count unchanged when
\* last_publish_date is today and otherwise sets it to 0 with the new date;
\* the number of regular posts still allowed is the same before and after.
C18_InsomniaPostIsNotCounted ==
    [][InsomniaPost =>
          /\ (HourOf(ap_now) >= 23 \/ HourOf(ap_now) < 2)
          /\ ap_ret'.passed
          /\ ap'.today_publish_count =
                IF ap.last_publish_date = ap_now.day
                THEN ap.today_publish_count ELSE 0
          /\ Allowed(ap', ap_now') = Allowed(ap, ap_now)]_vars

\* an insomnia post made with the day's limit already reached
C18_Witness ==
    /\ ap_ret.op = "publish"
    /\ ap_ret.insomnia
    /\ ap.publish_times_per_day > 0
    /\ ap.today_publish_count >= ap.publish_times_per_day

SweepOf(conversations, days_threshold) == DecayLoop(conversations, 1, days_threshold)

BackoffWait(k) == IF k <= 4 THEN 2^(k - 1) ELSE 10

BoundedBackoff(p) ==
    /\ p.queries <= 30
    /\ p.delay <= 10
    /\ \A k \in 1..Len(p.waits) : p.waits[k] = BackoffWait(k)

\* C22 as stated: the loop makes at most 30 status queries, waits 1, 2, 4,
\* 8 and then 10 seconds between them, and always terminates: with the image
\* URL when the task reports SUCCEED with an image, and otherwise by raising
\* once the task reports FAILED or the 30 attempts are used up.
C22_PollEndsOnFailedOrExhausted ==
    /\ [](poll.used =>
            /\ BoundedBackoff(poll)
            /\ (poll.outcome = "image" <=> poll.last = "SUCCEED_image")
            /\ (poll.outcome = "raise" =>
                   (poll.last = "FAILED" \/ poll.retry_count = 30)))
    /\ <>(poll.used /\ poll.pc = "done")

\* C22, amended: the loop makes at most 30 status queries, waits 1, 2, 4, 8
\* and then 10 seconds between them, and always terminates: with the image
\* URL when the task reports SUCCEED with an image, and otherwise by raising
\* once the task reports FAILED, reports SUCCEED without an image, the HTTP
\* client raises, or the 30 attempts are used up.
C22_PollIsBoundedAndEnds ==
    /\ [](poll.used =>
            /\ BoundedBackoff(poll)
            /\ (poll.outcome = "image" <=> poll.last = "SUCCEED_image")
            /\ (poll.outcome = "raise" =>
                   \/ poll.last \in {"FAILED", "SUCCEED_empty", "client_error"}
                   \/ (poll.retry_count = 30 /\ poll.queries = 30))
            /\ (poll.pc = "done" <=> poll.outcome # "running"))
    /\ <>(poll.used /\ poll.pc = "done")

\* the thirty attempts used up without SUCCEED or FAILED
C22_Witness ==
    /\ poll.used /\ poll.pc = "done" /\ poll.outcome = "raise"
    /\ poll.queries = 30
    /\ Len(poll.waits) = 30 /\ poll.waits[5] = 10 /\ poll.waits[30] = 10

\* C30: the draw tool's polling loop doubles its delay from 1 second, never
\* waits more than 10 seconds, stops after at most 30 attempts, and so
\* terminates even when the task never reports SUCCEED or FAILED.
C30_DrawPollIsBounded ==
    /\ [](dpoll.used =>
            /\ dpoll.delay <= 10
            /\ \A k \in 1..Len(dpoll.waits) : dpoll.waits[k] = BackoffWait(k)
            /\ dpoll.attempts <= 30)
    /\ <>(dpoll.used /\ dpoll.pc = "done")

(* ---------------- claims about HabitBalanceSystem ---------------- *)
\* C23: with record_surprise called only after should_trigger_surprise has
\* returned True, any two recorded surprises are at least 6 hours apart and
\* no more than 3 surprises are recorded within any 24-hour span.
C23_SurprisesAreSpacedAndCapped ==
    hb.used =>
        LET s == hb.surprises
        IN  /\ \A i, j \in DOMAIN s : i < j => s[j] - s[i] >= 6
            /\ \A i \in DOMAIN s :
                  Cardinality({ j \in DOMAIN s : s[i] <= s[j] /\ s[j] < s[i] + 24 }) <= 3

\* days_in_phase as daily_check counts it before it looks at the phase
DaysCounted == hb.days_in_phase + (DateOf(hb.time) - hb.last_change_date)

\* C29: the phase changes only inside daily_check: from stable only when
\* days_in_phase has reached 14, from changing only when it has reached 7,
\* and days_in_phase is 0 after the switch; after a daily_check that
\* advances the date, stable implies days_in_phase < 14 and changing implies
\* days_in_phase < 7; no operation modifies core_habits.
C29_PhasesAlternateInDailyCheck ==
    [][hb.used =>
          /\ hb'.change_phase # hb.change_phase =>
                /\ hb'.ret = "daily_check"
                /\ hb'.days_in_phase = 0
                /\ hb.change_phase = "stable" =>
                      (hb'.change_phase = "changing" /\ DaysCounted >= 14)
                /\ hb.change_phase = "changing" =>
                      (hb'.change_phase = "stable" /\ DaysCounted >= 7)
          /\ (hb'.ret = "daily_check" /\ hb'.last_change_date > hb.last_change_date) =>
                /\ hb'.change_phase = "stable" => hb'.days_in_phase < 14
                /\ hb'.change_phase = "changing" => hb'.days_in_phase < 7
          /\ hb'.core_habits = hb.core_habits
      ]_vars

\* back in the stable phase after a changing phase that injected a habit
C29_Witness ==
    /\ hb.used
    /\ hb.ret = "daily_check"
    /\ hb.change_phase = "stable" /\ hb.days_in_phase = 0
    /\ Len(hb.temporary_habits) = 3

(* ---------------- C24 ---------------- *)
ExpressionInRange(e) ==
    /\ e.jokes_successful <= e.jokes_told
    /\ e.humor_maturity \in 1..10
    /\ e.vocabulary_level \in 1..10

\* C24: after any sequence of record_joke and learn_from_content calls
\* jokes_successful <= jokes_told, humor_maturity and vocabulary_level are
\* within 1..10 and never decrease, and humor_maturity does not change in a
\* call that leaves jokes_told below 10.
C24_ExpressionLevelsOnlyGrow ==
    /\ [](ee.used => ExpressionInRange(ee))
    /\ [][(ee.used /\ ee'.used) =>
            /\ ee'.humor_maturity >= ee.humor_maturity
            /\ ee'.vocabulary_level >= ee.vocabulary_level
            /\ (ee'.jokes_told < 10 => ee'.humor_maturity = ee.humor_maturity)]_vars

\* both levels have risen: ten jokes told, a hundred words learned
C24_Witness ==
    /\ ee.used
    /\ ee.jokes_told >= 10
    /\ ee.humor_maturity > 1
    /\ ee.vocabulary_level = 2

(* ---------------- C25 ---------------- *)
\* today_publish_count never exceeds publish_times_per_day
CountWithinLimit == ap.today_publish_count <= ap.publish_times_per_day

\* C25: on every calendar day at most publish_times_per_day regular posts
\* pass the limit check of _publish_post, and today_publish_count is at most
\* publish_times_per_day, whatever coroutines overlap.
C25_DailyLimitHolds ==
    fl.used =>
        /\ \A d \in DOMAIN fl.passes : fl.passes[d] <= ap.publish_times_per_day
        /\ CountWithinLimit

(* ---------------- C26 ---------------- *)
PmPending(n) ==
    \E k \in DOMAIN pm.scheduled_messages : pm.scheduled_messages[k].nth = n

PmSent(n) == \E k \in DOMAIN pm.sent : pm.sent[k] = n

\* the start_scheduler coroutine has ended without stop_scheduler
PmLoopEndedOnItsOwn ==
    pm.used /\ ~pm.stop_called /\ pm.pc \in {"raised", "returned"}

\* C26: while stop_scheduler has not been called the scheduler loop does not
\* end, no message is passed to send_callback twice, and every scheduled
\* message is eventually passed to send_callback unless
\* clear_scheduled_messages removes it.
C26_EveryMessageIsSentOnce ==
    /\ [](~PmLoopEndedOnItsOwn)
    /\ [](pm.used => \A j, k \in DOMAIN pm.sent : pm.sent[j] = pm.sent[k] => j = k)
    /\ \A n \in 1..MaxMessages :
          (pm.used /\ PmPending(n))
              ~> (PmSent(n) \/ n \in pm.cleared \/ pm.stop_called)

(* ---------------- C27 ---------------- *)
\* C27: for each update type, any two updates check_and_update recorded are
\* at least `cooldown` seconds apart, also when calls overlap.
C27_UpdatesAreACooldownApart ==
    pu.used =>
        \A t \in UpdateTypes :
            \A j, k \in DOMAIN pu.updates[t] :
                j < k => pu.updates[t][k] - pu.updates[t][j] >= pu.cooldown

(* ---------------- C28 ---------------- *)
\* C28: of any 30 consecutive interactions of a session, apply_memory_decay
\* is invoked on at most one and on at least one.
C28_DecayOncePerThirtyInteractions ==
    ix.used =>
        \A s \in IxSessions :
            LET d == ix.decayed[s]
            IN  /\ \A j, k \in DOMAIN d :
                      (j < k /\ k - j < DecayEvery) => ~(d[j] /\ d[k])
                /\ \A j \in DOMAIN d :
                      j + DecayEvery - 1 <= Len(d) =>
                          \E k \in j..(j + DecayEvery - 1) : d[k]

====
